---- MODULE Spec2Model ----
(***************************************************************************)
(* Model of the frame loop of the Vulkan sandbox renderer:                 *)
(* MasterRenderer::draw / resize / on_resize (src/src/master_renderer.rs), *)
(* Swapchain::new / next_image / present (src/src/vulkan/swapchain.rs),    *)
(* the fence helpers (src/src/vulkan/fence.rs) and the GPU executing the   *)
(* submitted command buffers asynchronously; and of two resource types the *)
(* frame loop uses: Buffer (src/src/vulkan/buffer.rs) and                  *)
(* DescriptorAllocator (src/src/vulkan/descriptors/allocator.rs), each     *)
(* with a specification of its own.                                        *)
(*                                                                         *)
(* draw() is cut at its blocking calls (vkDeviceWaitIdle, the two          *)
(* vkWaitForFences, vkAcquireNextImageKHR) so that GPU completions can     *)
(* interleave with it; between two blocking calls the code runs as one     *)
(* action.                                                                 *)
(***************************************************************************)
EXTENDS Integers, Sequences, FiniteSets, TLC

VARIABLES
    pc,               \* position of the CPU thread inside draw()
    result,           \* what the last draw() returned: "none", "Ok", "Err"
    should_resize,    \* MasterRenderer::should_resize
    current_frame,    \* MasterRenderer::current_frame
    fence_signaled,   \* state of in_flight_fences[i] on the device
    pending,          \* queue submissions the GPU has not completed yet
    swapchain,        \* MasterRenderer::swapchain
    per_frame_data,   \* MasterRenderer::per_frame_data
    renderpass,       \* handle of MasterRenderer::renderpass
    pipeline,         \* handle of MasterRenderer::pipeline
    image_index,      \* local of draw(): the image acquired for this frame
    log,              \* history of the current (or last) draw() call
    semaphores,       \* signals queued on each semaphore and not yet waited on
    buffer,           \* a Buffer: its fields and the memory behind it
    buffer_log,       \* history of the last call on the Buffer
    allocator,        \* a DescriptorAllocator
    device_pools,     \* the descriptor pools the device holds
    alloc_log,        \* history of the last call on the DescriptorAllocator
    cycle,            \* progress of the repeated resize cycle
    mesh_renderer,    \* a MeshRenderer: its per-image FrameData
    mesh_log,         \* history of the last call on the MeshRenderer
    physical_devices, \* the physical devices the instance enumerates
    device_log,       \* history of device::create
    capabilities,     \* the image counts of the surface capabilities
    swapchain_log,    \* history of the last Swapchain::new on that surface
    alive,            \* the device objects created and not destroyed
    destroyed,        \* the objects destroyed, in the order of the calls
    script,           \* the calls the running handler has still to make
    context_refs,     \* strong count of the Rc<VulkanContext>
    lifetime,         \* where the renderer is in its life
    buffer_life, \* what was created, mapped and destroyed for the Buffer
    pool_life, \* the descriptor pools destroyed, and whether the allocator was dropped
    caches,  \* the ResourceCaches of the ResourceManager
    cache_log, \* history of the last call on a ResourceCache
    gltf_log  \* history of the last pad_vec or Mesh::from_gltf call

vars == <<pc, result, should_resize, current_frame, fence_signaled, pending,
          swapchain, per_frame_data, renderpass, pipeline, image_index, log,
          semaphores, buffer, buffer_log, allocator, device_pools, alloc_log, cycle,
          mesh_renderer, mesh_log, physical_devices, device_log,
          capabilities, swapchain_log, alive, destroyed, script,
          context_refs, lifetime, buffer_life, pool_life, caches, cache_log, gltf_log>>

\* the variables of the frame loop, of the Buffer and of the allocator
frame_vars == <<pc, result, should_resize, current_frame, fence_signaled, pending,
                swapchain, per_frame_data, renderpass, pipeline, image_index, log,
                semaphores>>

buffer_vars == <<buffer, buffer_log>>

allocator_vars == <<allocator, device_pools, alloc_log, cycle>>

mesh_vars == <<mesh_renderer, mesh_log>>

device_vars == <<physical_devices, device_log>>

surface_vars == <<capabilities, swapchain_log>>

lifetime_vars == <<alive, destroyed, script, context_refs, lifetime>>

staging_vars == <<buffer_life>>

pool_vars == <<pool_life>>

cache_vars == <<caches, cache_log>>

gltf_vars == <<gltf_log>>

\* what the actions of one part leave alone: the variables of the others
not_frame_vars == <<buffer_vars, allocator_vars, mesh_vars, device_vars,
    surface_vars, lifetime_vars,
    staging_vars,
    pool_vars,
    cache_vars,
    gltf_vars>>

not_buffer_vars == <<frame_vars, allocator_vars, mesh_vars, device_vars,
    surface_vars, lifetime_vars,
    staging_vars,
    pool_vars,
    cache_vars,
    gltf_vars>>

not_allocator_vars == <<frame_vars, buffer_vars, mesh_vars, device_vars,
    surface_vars, lifetime_vars,
    staging_vars,
    pool_vars,
    cache_vars,
    gltf_vars>>

not_mesh_vars == <<frame_vars, buffer_vars, allocator_vars, device_vars,
    surface_vars, lifetime_vars,
    staging_vars,
    pool_vars,
    cache_vars,
    gltf_vars>>

not_surface_vars ==
    <<frame_vars, buffer_vars, allocator_vars, mesh_vars, device_vars,
      lifetime_vars,
    staging_vars,
    pool_vars,
    cache_vars,
    gltf_vars>>

not_lifetime_vars ==
    <<frame_vars, buffer_vars, allocator_vars, mesh_vars, device_vars,
      surface_vars,
    staging_vars,
    pool_vars,
    cache_vars,
    gltf_vars>>

not_device_vars == <<frame_vars, buffer_vars, allocator_vars, mesh_vars,
    surface_vars, lifetime_vars,
    staging_vars,
    pool_vars,
    cache_vars,
    gltf_vars>>

\* what the calls on a Buffer leave alone when its life is followed
not_buffer_life_vars ==
    <<frame_vars, allocator_vars, mesh_vars, device_vars, surface_vars,
      lifetime_vars,
    pool_vars,
    cache_vars,
    gltf_vars>>

\* what clear() leaves alone besides the allocator and its pools
not_pool_life_vars ==
    <<frame_vars, buffer_vars, mesh_vars, device_vars, surface_vars,
      lifetime_vars, staging_vars,
    cache_vars,
    gltf_vars>>

not_staging_vars ==
    <<frame_vars, buffer_vars, allocator_vars, mesh_vars, device_vars, surface_vars, lifetime_vars,
    pool_vars,
    cache_vars,
    gltf_vars>>

not_pool_vars ==
    <<frame_vars, buffer_vars, allocator_vars, mesh_vars, device_vars, surface_vars, lifetime_vars, staging_vars,
    cache_vars,
    gltf_vars>>

not_cache_vars ==
    <<frame_vars, buffer_vars, allocator_vars, mesh_vars, device_vars, surface_vars, lifetime_vars, staging_vars, pool_vars,
    gltf_vars>>

not_gltf_vars ==
    <<frame_vars, buffer_vars, allocator_vars, mesh_vars, device_vars, surface_vars, lifetime_vars, staging_vars, pool_vars, cache_vars>>

----------------------------------------------------------------------------
(* Program constants *)

FRAMES_IN_FLIGHT == 2

MAX_FRAMES == 5

MAX_OBJECTS == 8192

\* the score a discrete GPU gets on top of its limits
DISCRETE_BONUS == 1000

(* Bounds of the model *)

\* largest number of images a swapchain of the model holds
MaxImages == 3

\* longest list of surface formats the surface reports
MaxFormats == 2

\* largest size of a Buffer, in bytes
MaxCapacity == 2

\* largest set_count a DescriptorAllocator is configured with
MaxSetCount == 2

\* largest number of descriptor pools the device creates
MaxPools == 2

\* largest number of resize cycles run on one DescriptorAllocator
MaxCycles == 3

\* largest number of objects a scene holds beyond MAX_OBJECTS
MaxExcess == 2

\* largest number of physical devices the instance enumerates
MaxDevices == 2

\* the small value of a device limit
MaxLimit == 1

\* width in bits of the unsigned integers that stand for u32
WordBits == 4

\* largest number of images the presentation engine creates beyond
\* MAX_FRAMES
MaxExtraImages == 2

\* largest number of resizes in the life of one renderer
MaxResizes == 1

\* write() calls followed over the life of one Buffer
MaxWrites == 3

\* the most elements an accessor of a glTF primitive holds
MaxVertices == 3

----------------------------------------------------------------------------
(* Values *)

\* vk::Fence::null()
NullFence == -1

\* image_index while draw() holds no image
NoImage == -1

FrameSlots == 0 .. (FRAMES_IN_FLIGHT - 1)

\* Object handles: a create call returns a handle different from every live
\* handle of the same type; two values are enough to tell old from new.
Handles == {"h0", "h1"}

PreferredFormat == [format |-> "B8G8R8A8_SRGB", color_space |-> "SRGB_NONLINEAR"]

\* the surface formats of the model: the preferred one and another one
SurfaceFormats ==
    { PreferredFormat,
      [format |-> "R8G8B8A8_UNORM", color_space |-> "SRGB_NONLINEAR"] }

\* the non-empty lists of formats a surface can report
FormatLists ==
    UNION { [1 .. n -> SurfaceFormats] : n \in 1 .. MaxFormats }

Min(a, b) == IF a <= b THEN a ELSE b

----------------------------------------------------------------------------
(* Swapchain::new *)

RECURSIVE FirstPreferred(_, _)
FirstPreferred(formats, i) ==
    IF i > Len(formats) THEN 0
    ELSE IF formats[i].format = "B8G8R8A8_SRGB"
            /\ formats[i].color_space = "SRGB_NONLINEAR"
         THEN i
         ELSE FirstPreferred(formats, i + 1)

pick_format(formats) ==
    IF FirstPreferred(formats, 1) # 0
    THEN formats[FirstPreferred(formats, 1)]
    ELSE formats[1]

\* The u32 of the surface capabilities is modelled as an unsigned integer
\* of WordBits bits: WordMax stands for u32::MAX.
WordMax == 2 ^ WordBits - 1

\* a + b does not fit the unsigned type
Overflowing(a, b) == a + b > WordMax

\* a + b as a build without overflow checks computes it
wrapping_add(a, b) == (a + b) % (WordMax + 1)

\* the image count Swapchain::new asks the presentation engine for (in a
\* build with overflow checks, if min_image_count + 1 does not overflow)
RequestedImageCount(min_image_count, max_image_count) ==
    LET image_count == Min(wrapping_add(min_image_count, 1), MAX_FRAMES)
    IN  IF max_image_count # 0
        THEN Min(image_count, max_image_count)
        ELSE image_count

\* surface capabilities of the model: min_image_count >= 1 and
\* max_image_count either 0 (no limit) or >= min_image_count
Capabilities ==
    { c \in [min_image_count : 1 .. (MaxImages - 1), max_image_count : 0 .. MaxImages] :
        c.max_image_count = 0 \/ c.max_image_count >= c.min_image_count }

\* Swapchain::new: vkGetSwapchainImagesKHR returns n images, at least the
\* requested number and possibly more.
SwapchainNew(caps, formats, n) ==
    [images |-> n, surface_format |-> pick_format(formats)]

\* every swapchain Swapchain::new can return, over the surfaces of the model
NewSwapchains ==
    UNION { { SwapchainNew(caps, fl, n) :
                n \in RequestedImageCount(caps.min_image_count,
                                          caps.max_image_count) .. MaxImages } :
            caps \in Capabilities, fl \in FormatLists }

ImageRange(sc) == 0 .. (sc.images - 1)

----------------------------------------------------------------------------
(* PerFrameData::new *)

PerFrameDataNew == [image_in_flight |-> NullFence]

\* per-frame data built once per frame in flight, not once per image
NewPerFrameData_PerSlot(sc) ==
    [i \in 0 .. (FRAMES_IN_FLIGHT - 1) |-> PerFrameDataNew]

NewPerFrameData(sc) == [i \in ImageRange(sc) |-> PerFrameDataNew]

----------------------------------------------------------------------------
(* History of one draw() call *)

LogNew(flag) ==
    [ resize_requested |-> flag,   \* should_resize when draw() was entered
      resizes          |-> 0,      \* resize() calls that completed
      rebuilt          |-> {},     \* objects resize() replaced
      format_changed   |-> FALSE,  \* the resize changed the surface format
      blocked_idle     |-> FALSE,  \* work was pending when wait_idle was called
      blocked_frame    |-> FALSE,  \* the slot's fence was unsignaled when waited on
      blocked_image    |-> FALSE,  \* the image's fence was unsignaled when waited on
      acquire          |-> "none", \* result of next_image
      wrote_uniform    |-> FALSE,  \* uniformbuffer.fill ran
      submitted        |-> FALSE,  \* commandbuffer.submit succeeded
      present          |-> "none", \* result of present
      error            |-> "none"  \* the call whose error ended draw()
    ]

\* When draw() returns, the log keeps the results of its calls; what it
\* recorded about the resize and the waits describes a draw() in progress.
LogReturned(l) ==
    [l EXCEPT !.resize_requested = FALSE, !.resizes = 0, !.rebuilt = {},
              !.format_changed = FALSE, !.blocked_idle = FALSE,
              !.blocked_frame = FALSE, !.blocked_image = FALSE]

\* the log of a draw() that ends because call returned an error
LogFailed(l, call) == LogReturned([l EXCEPT !.error = call])

----------------------------------------------------------------------------
(* The device *)

\* vkWaitForFences on one fence with timeout u64::MAX returns once the
\* fence is signaled
fence_wait(f) == fence_signaled[f]

\* resize() without the device-idle wait
device_wait_idle_Skipped == TRUE

\* vkDeviceWaitIdle returns once every queue has finished its work
device_wait_idle == pending = {}

\* vkQueueSubmit: a new submission that signals fence f and executes the
\* command buffer of image k; id tells it from the pending submissions with
\* the same fence and command buffer, if there are any
Submission(f, k) ==
    [id |-> CHOOSE n \in 0 .. Cardinality(pending) :
                \A s \in pending : ~(s.fence = f /\ s.image = k /\ s.id = n),
     fence |-> f, image |-> k]

\* MasterRenderer::new creates FRAMES_IN_FLIGHT semaphores of each kind, all
\* unsignaled.  The model counts, for each semaphore, the signal operations
\* queued on it minus the wait operations queued on it.
SemaphoresNew ==
    [image_available |-> [f \in FrameSlots |-> 0],
     render_finished |-> [f \in FrameSlots |-> 0]]

\* a call that queues a signal operation on the semaphore kind[f]
Signaled(sem, kind, f) == [sem EXCEPT ![kind][f] = @ + 1]

\* a call that queues a wait operation on the semaphore kind[f]
Waited(sem, kind, f) == [sem EXCEPT ![kind][f] = @ - 1]

\* draw() that waits on the image-available semaphore of the other slot
wait_semaphores_NextSlot(f) == (f + 1) % FRAMES_IN_FLIGHT

\* draw(): the submit waits on image_available_semaphores[current_frame]
wait_semaphores(f) == f

\* draw(): the submit signals, and present waits on,
\* render_finished_semaphores[current_frame]
signal_semaphores(f) == f

\* commandbuffer.submit with the frame's wait and signal semaphores
Submitted(sem, f) ==
    Signaled(Waited(sem, "image_available", wait_semaphores(f)),
             "render_finished", signal_semaphores(f))

\* The GPU completes a pending submission: its fence becomes signaled.
\* (Once draw() has returned an error the loop has ended and the model
\* stops.)
GpuComplete ==
    \E s \in pending :
        /\ pc # "failed"
        /\ pending' = pending \ {s}
        /\ fence_signaled' = [fence_signaled EXCEPT ![s.fence] = TRUE]
        /\ UNCHANGED <<pc, result, should_resize, current_frame, swapchain,
                       per_frame_data, renderpass, pipeline, image_index, log>>
        /\ UNCHANGED <<not_frame_vars, semaphores>>

----------------------------------------------------------------------------
(* Buffer (src/src/vulkan/buffer.rs; src/src/buffer.rs is the earlier      *)
(* version of the same type, without MappedPersistent)                     *)
(*                                                                         *)
(* Memory is a function from byte addresses, counted from 0, to bytes.  A  *)
(* byte carries its provenance: the write it came from and its position in *)
(* the source data of that write, so that a byte that lands at the wrong   *)
(* address or comes from an earlier write is told from the right one.  A   *)
(* copy on the transfer queue is taken at its completion.                  *)

BufferUsages == {"Staged", "StagedPersistent", "Mapped", "MappedPersistent"}

\* the source data of the model: consecutive writes pass different data,
\* told apart by gen
Gens == {"a", "b"}

\* the data of the write that follows a write of gen
NextGen(gen) == IF gen = "a" THEN "b" ELSE "a"

\* a byte nobody has written (or that a lost device left undefined)
Uninit == [gen |-> "uninit", idx |-> 0]

\* the size bytes a caller passes to fill() (T = u8)
SourceData(gen, size) == [i \in 0 .. (size - 1) |-> [gen |-> gen, idx |-> i]]

\* freshly allocated memory of size bytes
FreshMemory(size) == [a \in 0 .. (size - 1) |-> Uninit]

\* the addresses an access of n bytes at address at touches
Range(at, n) == at .. (at + n - 1)

\* n bytes of src, from its address 0, copied to address at of dst
\* (ptr::copy_nonoverlapping, vkCmdCopyBuffer): the bytes that land in dst
CopyInto(dst, at, src, n) ==
    [a \in DOMAIN dst |-> IF a \in Range(at, n) THEN src[a - at] ELSE dst[a]]

\* the addressed bytes of dst after the device was lost during the copy
Undefined(dst, at, n) ==
    [a \in DOMAIN dst |-> IF a \in Range(at, n) THEN Uninit ELSE dst[a]]

\* Option<(vk::Buffer, Allocation, AllocationInfo)>: None
NoStaging == [present |-> FALSE, memory |-> << >>]

\* Some(create_staging(allocator, size, _))
create_staging(size) == [present |-> TRUE, memory |-> FreshMemory(size)]

\* Buffer::new_uninit
new_uninit(usage, size) ==
    [size |-> size, usage |-> usage, memory |-> FreshMemory(size),
     staging_buffer |-> NoStaging]

\* no Buffer has been created yet (or Buffer::new dropped it on an error)
NoBuffer == [size |-> 0, usage |-> "none", memory |-> << >>,
             staging_buffer |-> NoStaging]

(* Results of a Buffer call *)

BufferOk == [kind |-> "Ok", size |-> 0, max_size |-> 0]

\* Error::BufferOverflow { size, max_size }
BufferOverflow(size, max_size) ==
    [kind |-> "BufferOverflow", size |-> size, max_size |-> max_size]

\* a call into the device or the memory allocator returned an error
DeviceError == [kind |-> "DeviceError", size |-> 0, max_size |-> 0]

\* the process was stopped by a CPU write outside the mapped allocation
Crashed == [kind |-> "Crashed", size |-> 0, max_size |-> 0]

\* write() that never rejects a request
Overflows_Never(size, capacity) == FALSE

\* write(): the check before the dispatch on usage; offset is not part of it
Overflows(size, capacity) == size > capacity

(* The calls each write path makes, in order *)

IndexOf(seq, x) == CHOOSE i \in 1 .. Len(seq) : seq[i] = x

Steps(seq) == { seq[i] : i \in 1 .. Len(seq) }

write_staged == << "create_staging", "write_func", "copy", "destroy_buffer" >>

\* write_staged_persistent that creates a staging buffer on every write
write_staged_persistent_Recreates(staging_buffer) ==
    << "create_staging", "map_memory", "write_func", "copy", "unmap_memory" >>

write_staged_persistent(staging_buffer) ==
    (IF staging_buffer.present THEN << >> ELSE << "create_staging" >>)
    \o << "map_memory", "write_func", "copy", "unmap_memory" >>

write_mapped == << "map_memory", "write_func", "unmap_memory" >>

write_mapped_persistent == << "write_func", "flush_allocation" >>

\* write(): the dispatch on self.usage
WritePath(buf) ==
    CASE buf.usage = "Staged" -> write_staged
      [] buf.usage = "StagedPersistent" -> write_staged_persistent(buf.staging_buffer)
      [] buf.usage = "Mapped" -> write_mapped
      [] buf.usage = "MappedPersistent" -> write_mapped_persistent

\* the calls of a path that return a Result
Fallible(path) == Steps(path) \ {"write_func"}

\* the step of a path that puts bytes into the destination buffer
Writer(usage) ==
    IF usage \in {"Staged", "StagedPersistent"} THEN "copy" ELSE "write_func"

\* the number of bytes that step moves: write_staged copies size bytes,
\* write_staged_persistent copies self.size bytes, the mapped paths let
\* write_func write its size bytes
Moved(buf, size) == IF buf.usage = "StagedPersistent" THEN buf.size ELSE size

\* step was called and returned without an error, when the call that fails
\* is stop ("none": no call fails)
StepDone(path, step, stop) ==
    /\ step \in Steps(path)
    /\ stop = "none" \/ IndexOf(path, step) < IndexOf(path, stop)

\* the calls made, up to and including the one that fails
StepsMade(path, stop) ==
    IF stop = "none" THEN path ELSE SubSeq(path, 1, IndexOf(path, stop))

\* What an access that reaches past the end of the destination does is not
\* defined: it overwrites what lies behind the buffer ("corrupts"), or it
\* is caught ("faults": the process is stopped by the CPU write, the device
\* is lost by the copy and the copy returns an error).
Overruns == {"corrupts", "faults"}

\* Buffer::write(size, offset, write_func) with a write_func that copies
\* the size bytes of data to the pointer it is given (as fill does).
\* fail is the call that returns an error ("none": no call does).
\* Returns the buffer afterwards, the result, the calls made and reach: the
\* end of the destination range written (0: nothing was written).
Write(buf, size, offset, data, fail, overrun) ==
    IF Overflows(size, buf.size)
    THEN [buffer |-> buf, result |-> BufferOverflow(size, buf.size),
          steps |-> << >>, reach |-> 0]
    ELSE
      LET path == WritePath(buf)
          writer == Writer(buf.usage)
          n == Moved(buf, size)
          faults == /\ offset + n > buf.size
                    /\ overrun = "faults"
                    /\ StepDone(path, writer, fail)
          stop == IF faults THEN writer ELSE fail
          wrote == StepDone(path, writer, fail)
          created == IF StepDone(path, "create_staging", stop)
                        /\ buf.usage = "StagedPersistent"
                     THEN create_staging(buf.size)
                     ELSE buf.staging_buffer
          staging == IF created.present /\ StepDone(path, "write_func", stop)
                     THEN [created EXCEPT !.memory = CopyInto(@, 0, data, size)]
                     ELSE created
          source == IF buf.usage = "StagedPersistent" THEN staging.memory ELSE data
          memory == IF ~wrote THEN buf.memory
                    ELSE IF faults /\ writer = "copy"
                         THEN Undefined(buf.memory, offset, n)
                         ELSE CopyInto(buf.memory, offset, source, n)
      IN [buffer |-> [buf EXCEPT !.memory = memory, !.staging_buffer = staging],
          result |-> IF faults
                     THEN (IF writer = "copy" THEN DeviceError ELSE Crashed)
                     ELSE IF fail # "none" THEN DeviceError ELSE BufferOk,
          steps |-> StepsMade(path, stop),
          reach |-> IF wrote THEN offset + n ELSE 0]

(* History of the last Buffer call *)

BufferLogNew ==
    [call |-> "none", gen |-> "none", size |-> 0, offset |-> 0,
     result |-> [kind |-> "none", size |-> 0, max_size |-> 0],
     steps |-> << >>, reach |-> 0]

BufferLog(call, gen, size, offset, w) ==
    [call |-> call, gen |-> gen, size |-> size, offset |-> offset,
     result |-> w.result, steps |-> w.steps, reach |-> w.reach]

\* the sizes of the buffers of the model
Capacities == 1 .. MaxCapacity

\* the sizes of the writes of the model: up to one byte more than the
\* largest buffer
WriteSizes == 1 .. (MaxCapacity + 1)

\* the offsets of the writes of the model: the addresses of the largest
\* buffer
WriteOffsets == 0 .. (MaxCapacity - 1)

\* Buffer::new_uninit(context, ty, usage, size)
BufferNewUninit ==
    /\ buffer = NoBuffer
    /\ \E usage \in BufferUsages, size \in Capacities, ok \in BOOLEAN :
         /\ buffer' = IF ok THEN new_uninit(usage, size) ELSE NoBuffer
         /\ buffer_log' =
               [BufferLogNew EXCEPT
                   !.call = "new_uninit", !.size = size,
                   !.result = IF ok THEN BufferOk ELSE DeviceError,
                   !.steps = << "create_buffer" >>]
    /\ UNCHANGED not_buffer_vars

\* Buffer::new(context, ty, usage, data): new_uninit with the size of the
\* data, then fill(0, data); an error of fill drops the buffer
BufferNew ==
    /\ buffer = NoBuffer
    /\ \E usage \in BufferUsages, size \in Capacities :
       \E fail \in {"none"} \cup Fallible(WritePath(new_uninit(usage, size))) :
       \E w \in { Write(new_uninit(usage, size), size, 0,
                        SourceData(NextGen(buffer_log.gen), size), fail,
                        "corrupts") } :
            /\ buffer' = IF w.result = BufferOk THEN w.buffer ELSE NoBuffer
            /\ buffer_log' = BufferLog("new", NextGen(buffer_log.gen), size, 0, w)
    /\ UNCHANGED not_buffer_vars

\* Buffer::fill(offset, data), that is write(size_of(data), offset, copy of
\* data); write_slice(len, offset, f) is the same call with size and offset
\* counted in items
BufferFill ==
    /\ buffer # NoBuffer
    /\ buffer_log.result # Crashed
    /\ \E size \in WriteSizes, offset \in WriteOffsets, overrun \in Overruns :
       \E fail \in {"none"} \cup Fallible(WritePath(buffer)) :
            \* an overrun and a failing call are inputs only of a write
            \* in which they can happen
            /\ (Overflows(size, buffer.size)
                   \/ offset + Moved(buffer, size) <= buffer.size)
                  => overrun = "corrupts"
            /\ Overflows(size, buffer.size) => fail = "none"
            /\ \E w \in { Write(buffer, size, offset,
                                 SourceData(NextGen(buffer_log.gen), size),
                                 fail, overrun) } :
                  /\ buffer' = w.buffer
                  /\ buffer_log' = BufferLog("fill", NextGen(buffer_log.gen),
                                             size, offset, w)
    /\ UNCHANGED not_buffer_vars
----------------------------------------------------------------------------
(* The life of a Buffer: what its calls create, map, submit and destroy    *)
(* (src/src/vulkan/buffer.rs).  copy() hands the transfer to              *)
(* CommandPool::single_time_command of vulkan/commands.rs; the copy() of   *)
(* src/src/buffer.rs makes the same calls itself.                          *)

\* a one-time command buffer that is submitted and not waited for
single_time_command_NoWait == << "submit" >>

\* CommandPool::single_time_command: record, submit, wait for the queue
single_time_command == << "submit", "queue_wait_idle" >>

\* the call of copy() that can return the error of a failing copy
CopyFailures(failed) ==
    IF failed THEN Steps(single_time_command) ELSE {"none"}

\* what a call of a write path acts on: the temporary staging buffer of
\* write_staged, the persistent one, the queue, or the Buffer itself
Target(usage, step) ==
    CASE step \in {"submit", "queue_wait_idle"} -> "queue"
      [] step = "write_func" -> "memory"
      [] usage = "Staged" -> "temporary"
      [] usage = "StagedPersistent" -> "staging"
      [] OTHER -> "buffer"

Call(step, on, ok) == [call |-> step, on |-> on, ok |-> ok]

\* the calls of a write that made steps, the last of them failing unless
\* ok; copy is replaced by the calls of single_time_command
RECURSIVE WriteCalls(_, _, _, _)
WriteCalls(usage, steps, ok, copy_fail) ==
    IF steps = << >> THEN << >>
    ELSE LET last == Len(steps) = 1
             made == IF Head(steps) = "copy"
                     THEN StepsMade(single_time_command,
                                    IF last THEN copy_fail ELSE "none")
                     ELSE << Head(steps) >>
             failing(i) == last /\ ~ok /\ i = Len(made)
         IN [i \in 1 .. Len(made) |->
                Call(made[i], Target(usage, made[i]), ~failing(i))]
            \o WriteCalls(usage, Tail(steps), ok, copy_fail)

\* Drop for Buffer: the buffer is destroyed, then the persistent staging
\* buffer, if there is one, is unmapped and destroyed
DropCalls(buf) ==
    << Call("destroy_buffer", "buffer", TRUE) >>
    \o (IF buf.staging_buffer.present
        THEN << Call("unmap_memory", "staging", TRUE),
                Call("destroy_buffer", "staging", TRUE) >>
        ELSE << >>)

\* no Buffer was created
BufferLifeNew ==
    [ usage        |-> "none",  \* the usage of the Buffer, kept after its drop
      writes       |-> 0,       \* write() calls so far
      dropped      |-> FALSE,   \* the Buffer was dropped
      temporary    |-> 0,       \* temporary staging buffers alive
      created      |-> 0,       \* persistent staging buffers created
      destroyed    |-> 0,       \* persistent staging buffers destroyed
      map_count    |-> 0,       \* map calls less unmap calls on the staging allocation
      copy_pending |-> FALSE,   \* a copy was submitted and not waited for
      early        |-> FALSE,   \* a staging buffer was destroyed with its copy pending
      mapped_destroyed |-> FALSE, \* the staging allocation was mapped when destroyed
      calls        |-> << >>    \* the calls of the last write() or drop
    ]

\* what one call that returned without an error does
AfterCall(l, c) ==
    CASE c.call = "create_staging" /\ c.on = "temporary" ->
            [l EXCEPT !.temporary = @ + 1]
      [] c.call = "create_staging" /\ c.on = "staging" ->
            [l EXCEPT !.created = @ + 1]
      [] c.call = "destroy_buffer" /\ c.on = "temporary" ->
            [l EXCEPT !.temporary = @ - 1, !.early = @ \/ l.copy_pending]
      [] c.call = "destroy_buffer" /\ c.on = "staging" ->
            [l EXCEPT !.destroyed = @ + 1, !.early = @ \/ l.copy_pending,
                      !.mapped_destroyed = @ \/ l.map_count > 0]
      [] c.call = "map_memory" /\ c.on = "staging" ->
            [l EXCEPT !.map_count = @ + 1]
      [] c.call = "unmap_memory" /\ c.on = "staging" ->
            [l EXCEPT !.map_count = @ - 1]
      [] c.call = "submit" -> [l EXCEPT !.copy_pending = TRUE]
      [] c.call = "queue_wait_idle" -> [l EXCEPT !.copy_pending = FALSE]
      [] OTHER -> l

RECURSIVE AfterCalls(_, _)
AfterCalls(l, calls) ==
    IF calls = << >> THEN l
    ELSE AfterCalls(IF Head(calls).ok THEN AfterCall(l, Head(calls)) ELSE l,
                    Tail(calls))

\* the names of the calls, in order
CallNames(calls) == [i \in 1 .. Len(calls) |-> calls[i].call]

\* Buffer::new_uninit(context, ty, usage, size) that returns a Buffer
BufferCreate ==
    /\ buffer = NoBuffer
    /\ ~buffer_life.dropped
    /\ \E usage \in BufferUsages, size \in Capacities :
         /\ buffer' = new_uninit(usage, size)
         /\ buffer_log' =
               [BufferLogNew EXCEPT
                   !.call = "new_uninit", !.size = size, !.result = BufferOk,
                   !.steps = << "create_buffer" >>]
         /\ buffer_life' = [BufferLifeNew EXCEPT !.usage = usage]
    /\ UNCHANGED not_buffer_life_vars

\* Buffer::write(size, 0, write_func), through fill: any size, any failing
\* call, and if that call is copy, either call of single_time_command
BufferWrite ==
    /\ buffer # NoBuffer
    /\ buffer_life.writes < MaxWrites
    /\ \E size \in WriteSizes, failing \in {"none"} \cup Fallible(WritePath(buffer)) :
       \E copy_fail \in CopyFailures(failing = "copy") :
         /\ Overflows(size, buffer.size) => failing = "none"
         /\ \E w \in { Write(buffer, size, 0,
                              SourceData(NextGen(buffer_log.gen), size),
                              failing, "corrupts") } :
              /\ buffer' = w.buffer
              /\ buffer_log' = BufferLog("fill", NextGen(buffer_log.gen),
                                         size, 0, w)
              /\ LET calls == WriteCalls(buffer.usage, w.steps,
                                         w.result = BufferOk, copy_fail)
                 IN buffer_life' =
                       [AfterCalls(buffer_life, calls) EXCEPT
                           !.writes = @ + 1, !.calls = calls]
    /\ UNCHANGED not_buffer_life_vars

\* the Buffer is dropped
BufferDrop ==
    /\ buffer # NoBuffer
    /\ buffer' = NoBuffer
    /\ buffer_log' = [BufferLogNew EXCEPT !.call = "drop", !.gen = buffer_log.gen]
    /\ buffer_life' =
          [AfterCalls(buffer_life, DropCalls(buffer)) EXCEPT
              !.dropped = TRUE, !.calls = DropCalls(buffer)]
    /\ UNCHANGED not_buffer_life_vars

----------------------------------------------------------------------------
(* DescriptorAllocator (src/src/vulkan/descriptors/allocator.rs)           *)
(*                                                                         *)
(* allocator is the DescriptorAllocator; device_pools is what the device   *)
(* holds: for every descriptor pool ever created, in the order of          *)
(* creation, its max_sets and the number of sets allocated from it.  A     *)
(* pool is named by its position in device_pools.  The descriptor counts   *)
(* of a pool are proportional to its max_sets, so in the model a request   *)
(* fits a pool exactly if its sets do.                                     *)

Max(a, b) == IF a >= b THEN a ELSE b

\* Pool::new(device, set_count, sizes): a pool with no set allocated
PoolNew(pool, set_count) ==
    [pool |-> pool, set_count |-> set_count, allocated |-> 0]

\* DescriptorAllocator::new(device, sizes, set_count)
DescriptorAllocatorNew(set_count) ==
    [set_count |-> set_count, pools |-> << >>, full_pools |-> << >>]

\* DescriptorAllocator::total_pool_count
total_pool_count(a) == Len(a.pools) + Len(a.full_pools)

\* Vec::swap_remove(i): the last element takes the place of element i
swap_remove(s, i) ==
    [j \in 1 .. (Len(s) - 1) |-> IF j = i THEN s[Len(s)] ELSE s[j]]

\* vkAllocateDescriptorSets of n sets from the device pool dp
allocate_descriptor_sets(dp, n) ==
    IF dp.allocated + n <= dp.max_sets THEN "ok" ELSE "out_of_pool_memory"

\* allocate() that goes on to the next pool after any error
ProbeContinues_Always(outcome) == TRUE

\* allocate(): the match arm that continues the loop over self.pools
ProbeContinues(outcome) == outcome = "out_of_pool_memory"

\* allocate_pool(set_count): the set count it passes to Pool::new is
\* self.set_count; its parameter is only logged
PoolSetCount(self_set_count, set_count) == self_set_count

\* allocate_pool that pushes the new pool twice
allocate_pool_Twice(a, pool, set_count) ==
    [a EXCEPT !.pools = @ \o << PoolNew(pool, PoolSetCount(a.set_count, set_count)),
                                PoolNew(pool, PoolSetCount(a.set_count, set_count)) >>]

\* allocate_pool(set_count) after Pool::new returned the pool
allocate_pool(a, pool, set_count) ==
    [a EXCEPT !.pools = Append(@, PoolNew(pool, PoolSetCount(a.set_count, set_count)))]

\* allocate() after the loop: no pool of self.pools served the request.
\* fault = Len(a.pools) + 1: vkCreateDescriptorPool returns an error;
\* fault = Len(a.pools) + 2: the allocation from the new pool returns an
\* error other than out-of-pool-memory.  The new pool's allocated counter
\* is not touched, and the pool stays in self.pools.
AllocateFromNewPool(a, dev, n, fault, probes) ==
    IF fault = Len(a.pools) + 1
    THEN [allocator |-> a, device |-> dev, result |-> "Err", probes |-> probes,
          served |-> 0, device_error |-> TRUE]
    ELSE
      LET id == Len(dev) + 1
          a2 == allocate_pool(a, id, Max(a.set_count, n))
          created == a2.pools[Len(a2.pools)]
          dev2 == Append(dev, [max_sets |-> created.set_count, allocated |-> 0])
          outcome == IF fault = Len(a.pools) + 2 THEN "error"
                     ELSE allocate_descriptor_sets(dev2[id], n)
      IN IF outcome = "ok"
         THEN [allocator |-> a2,
               device |-> [dev2 EXCEPT ![id].allocated = n],
               result |-> "Ok", probes |-> probes, served |-> id,
               device_error |-> FALSE]
         ELSE [allocator |-> a2, device |-> dev2, result |-> "Err",
               probes |-> probes, served |-> 0,
               device_error |-> outcome = "error"]

\* allocate(): the loop over self.pools from position i on.  fault = i: the
\* attempt on pool number i returns an error other than
\* out-of-pool-memory.  probes lists the attempts made so far: the pool, the
\* sets allocated from it at that moment, and the outcome.
RECURSIVE Probe(_, _, _, _, _, _)
Probe(a, dev, n, i, fault, probes) ==
    IF i > Len(a.pools)
    THEN AllocateFromNewPool(a, dev, n, fault, probes)
    ELSE
      LET pool == a.pools[i]
          outcome == IF fault = i THEN "error"
                     ELSE allocate_descriptor_sets(dev[pool.pool], n)
          tried == Append(probes, [pool |-> pool.pool,
                                   sets |-> dev[pool.pool].allocated,
                                   outcome |-> outcome])
          counted == [pool EXCEPT !.allocated = @ + n]
      IN IF outcome = "ok"
         THEN [allocator |->
                  IF counted.allocated >= counted.set_count
                  THEN [a EXCEPT !.pools = swap_remove(@, i),
                                 !.full_pools = Append(@, counted)]
                  ELSE [a EXCEPT !.pools[i] = counted],
               device |-> [dev EXCEPT ![pool.pool].allocated = @ + n],
               result |-> "Ok", probes |-> tried, served |-> pool.pool,
               device_error |-> FALSE]
         ELSE IF ProbeContinues(outcome)
              THEN Probe(a, dev, n, i + 1, fault, tried)
              ELSE [allocator |-> a, device |-> dev, result |-> "Err",
                    probes |-> tried, served |-> 0, device_error |-> TRUE]

\* DescriptorAllocator::allocate(layouts) with n layouts
Allocate(a, dev, n, fault) == Probe(a, dev, n, 1, fault, << >>)

\* reset(): the pools the loop visits, in order: self.pools chained with
\* self.full_pools, filtered by allocated != 0
Chained(a) == a.pools \o a.full_pools

\* the number of visited pools among the first i of the chain
Visited(chain, i) == Cardinality({ j \in 1 .. i : chain[j].allocated # 0 })

\* reset() after its loop: self.full_pools.clear() drops the Pool values of
\* the full list; Pool has no Drop, so their device pools stay alive and
\* no list holds them any more
ResetFullPools(a, pools, full_pools) ==
    [a EXCEPT !.pools = pools, !.full_pools = << >>]

\* DescriptorAllocator::reset().  fault = k > 0: vkResetDescriptorPool
\* returns an error for visited pool number k (its counter is already 0);
\* fault = 0: no call fails.
Reset(a, dev, fault) ==
    LET chain == Chained(a)
        counter_cleared(i) ==
            /\ chain[i].allocated # 0
            /\ fault = 0 \/ Visited(chain, i) <= fault
        device_reset(i) ==
            /\ chain[i].allocated # 0
            /\ fault = 0 \/ Visited(chain, i) < fault
        after(i) == IF counter_cleared(i)
                    THEN [chain[i] EXCEPT !.allocated = 0] ELSE chain[i]
        pools == [i \in 1 .. Len(a.pools) |-> after(i)]
        full_pools == [i \in 1 .. Len(a.full_pools) |-> after(Len(a.pools) + i)]
        dev2 == [id \in 1 .. Len(dev) |->
                    IF \E i \in 1 .. Len(chain) :
                          chain[i].pool = id /\ device_reset(i)
                    THEN [dev[id] EXCEPT !.allocated = 0] ELSE dev[id]]
    IN IF fault = 0
       THEN [allocator |-> ResetFullPools(a, pools, full_pools),
             device |-> dev2, result |-> "Ok"]
       ELSE [allocator |-> [a EXCEPT !.pools = pools, !.full_pools = full_pools],
             device |-> dev2, result |-> "Err"]

(* History of the last DescriptorAllocator call *)

\* a call into the device returned an error other than out-of-pool-memory
Faulted(r) ==
    \/ r.device_error
    \/ \E k \in 1 .. Len(r.probes) : r.probes[k].outcome = "error"

AllocLogNew ==
    [call |-> "none", requested |-> 0, result |-> "none", probes |-> << >>,
     served |-> 0, device_error |-> FALSE, tracked |-> 0, created |-> 0]

\* the log of an allocate() call of n layouts that returned r, made when
\* the allocator tracked `tracked` pools and the device held `existing`
AllocLog(n, r, tracked, existing) ==
    [call |-> "allocate", requested |-> n, result |-> r.result,
     probes |-> r.probes, served |-> r.served,
     device_error |-> Faulted(r), tracked |-> tracked,
     created |-> Len(r.device) - existing]

ResetLog(r) ==
    [AllocLogNew EXCEPT !.call = "reset", !.result = r.result,
                        !.device_error = r.result = "Err"]

\* the numbers of layouts of the allocate() calls of the model: up to one
\* more than the largest configured set_count
LayoutCounts == 1 .. (MaxSetCount + 1)

\* the resize cycle is not running
NoCycle == [requests |-> << >>, step |-> 0, count |-> 0, first |-> 0,
            failed |-> FALSE]

\* allocate(layouts), called by a descriptor builder
AllocatorAllocate ==
    /\ cycle = NoCycle
    /\ \E n \in LayoutCounts, fault \in 0 .. (Len(allocator.pools) + 2) :
         LET r == Allocate(allocator, device_pools, n, fault)
         IN /\ Len(r.device) <= MaxPools
            /\ fault # 0 => Faulted(r)
            /\ allocator' = r.allocator
            /\ device_pools' = r.device
            /\ alloc_log' = AllocLog(n, r, total_pool_count(allocator),
                                     Len(device_pools))
    /\ UNCHANGED <<not_allocator_vars, cycle>>

\* reset(), called by MasterRenderer::resize
AllocatorReset ==
    /\ cycle = NoCycle
    /\ \E fault \in 0 .. Visited(Chained(allocator), Len(Chained(allocator))) :
         LET r == Reset(allocator, device_pools, fault)
         IN /\ allocator' = r.allocator
            /\ device_pools' = r.device
            /\ alloc_log' = ResetLog(r)
    /\ UNCHANGED <<not_allocator_vars, cycle>>

(* clear() and Drop for DescriptorAllocator *)

\* no pool was destroyed, the allocator is alive
PoolLifeNew == [destroyed |-> << >>, dropped |-> FALSE]

\* clear(): both lists are drained, pools first, and every pool taken from
\* them is destroyed
Clear(a) ==
    [allocator |-> [a EXCEPT !.pools = << >>, !.full_pools = << >>],
     destroyed |-> [i \in 1 .. Len(Chained(a)) |-> Chained(a)[i].pool]]

\* clear(), and Drop for DescriptorAllocator (drop), which calls it
AllocatorClear ==
    /\ cycle = NoCycle
    /\ ~pool_life.dropped
    /\ \E drop \in BOOLEAN :
         /\ allocator' = Clear(allocator).allocator
         /\ pool_life' = [destroyed |-> pool_life.destroyed
                                           \o Clear(allocator).destroyed,
                          dropped |-> drop]
         /\ alloc_log' = [AllocLogNew EXCEPT
                             !.call = IF drop THEN "drop" ELSE "clear",
                             !.result = "Ok"]
    /\ UNCHANGED <<not_pool_life_vars, device_pools, cycle>>

(* The resize cycle: MasterRenderer::resize resets the allocator and then   *)
(* builds the per-frame data, whose descriptor sets are allocated by the    *)
(* same sequence of allocate() calls every time.                            *)

\* the sequences of requests of a cycle: at most one call per image
RequestSeqs ==
    UNION { [1 .. k -> LayoutCounts] : k \in 1 .. MaxImages }

\* self.descriptor_allocator.reset()? at the start of the cycle
CycleReset ==
    /\ cycle # NoCycle
    /\ ~cycle.failed
    /\ cycle.step = 0
    /\ cycle.count < MaxCycles
    /\ \E fault \in 0 .. Visited(Chained(allocator), Len(Chained(allocator))) :
         LET r == Reset(allocator, device_pools, fault)
         IN /\ allocator' = r.allocator
            /\ device_pools' = r.device
            /\ alloc_log' = ResetLog(r)
            /\ cycle' = IF r.result = "Ok"
                        THEN [cycle EXCEPT !.step = 1]
                        ELSE [cycle EXCEPT !.failed = TRUE]
    /\ UNCHANGED not_allocator_vars

\* the next allocate() call of the cycle; the last one completes the cycle
CycleAllocate ==
    /\ cycle # NoCycle
    /\ ~cycle.failed
    /\ cycle.step \in 1 .. Len(cycle.requests)
    /\ \E fault \in 0 .. (Len(allocator.pools) + 2) :
         LET n == cycle.requests[cycle.step]
             r == Allocate(allocator, device_pools, n, fault)
             last == cycle.step = Len(cycle.requests)
         IN /\ Len(r.device) <= MaxPools
            /\ fault # 0 => Faulted(r)
            /\ allocator' = r.allocator
            /\ device_pools' = r.device
            /\ alloc_log' = AllocLog(n, r, total_pool_count(allocator),
                                     Len(device_pools))
            /\ cycle' =
                  IF r.result # "Ok" THEN [cycle EXCEPT !.failed = TRUE]
                  ELSE IF ~last THEN [cycle EXCEPT !.step = @ + 1]
                  ELSE [cycle EXCEPT
                           !.step = 0, !.count = @ + 1,
                           !.first = IF cycle.count = 0
                                     THEN Len(r.device) ELSE @]
    /\ UNCHANGED not_allocator_vars
----------------------------------------------------------------------------
(* MeshRenderer (src/src/mesh_renderer.rs)                                 *)
(*                                                                         *)
(* Every image of the swapchain has a FrameData with an object buffer of   *)
(* MAX_OBJECTS records of ObjectData, written through write_slice by       *)
(* draw(). The records are counted, not stored: a scene is its number of   *)
(* objects, an object buffer the number of leading records the last write  *)
(* stored.                                                                 *)

\* mem::size_of::<ObjectData>(): one Mat4 of 16 f32
ObjectSize == 64

\* the numbers of objects of the scenes of the model: empty, one object,
\* and from one below MAX_OBJECTS to MaxExcess above it
SceneSizes ==
    {0, 1} \cup ((MAX_OBJECTS - 1) .. (MAX_OBJECTS + MaxExcess))

\* FrameData::new: the object buffer, Buffer::new_uninit(_, Storage,
\* MappedPersistent, size_of::<ObjectData>() * MAX_OBJECTS)
FrameDataNew ==
    [object_buffer |-> [size |-> ObjectSize * MAX_OBJECTS,
                        usage |-> "MappedPersistent", records |-> 0]]

\* no MeshRenderer has been created
NoMeshRenderer == [frames |-> << >>]

(* Results of MeshRenderer::draw *)

MeshOk == "Ok"

MeshBufferOverflow == "BufferOverflow"

MeshDeviceError == "DeviceError"

\* the thread panicked: draw() did not return
MeshPanicked == "Panicked"

\* draw(): the len passed to write_slice
SliceLen(objects) == Min(objects, MAX_OBJECTS)

\* The closure draw() passes to write_slice, run on a slice of slice_len
\* records: it stores one record per object of the scene, in order, through
\* slice[i]. Indexing a slice is bounds-checked: the store to the first
\* index outside the slice panics, after the records before it were stored.
StoreObjects(slice_len, objects) ==
    [stored |-> Min(slice_len, objects), panicked |-> objects > slice_len]

\* MeshRenderer::draw(commandbuffer, camera, image_index, scene) on a scene
\* of objects objects. fail is the call of the write that returns an error
\* ("none": no call does). Returns the frames afterwards, the result, the
\* number of records stored, the end of the bytes written and the number of
\* draw_indexed calls recorded.
MeshDraw(mr, index, objects, fail) ==
    LET frame == mr.frames[index + 1]
        len == SliceLen(objects)
        size == len * ObjectSize
        untouched == [frames |-> mr.frames, stored |-> 0, reach |-> 0,
                      drawn |-> 0]
    IN IF Overflows(size, frame.object_buffer.size)
       THEN untouched @@ [result |-> MeshBufferOverflow]
       ELSE
         LET w == StoreObjects(len, objects)
             frames == [mr.frames EXCEPT
                           ![index + 1].object_buffer.records = w.stored]
             written == [frames |-> frames, stored |-> w.stored,
                         reach |-> w.stored * ObjectSize, drawn |-> 0]
         IN IF w.panicked
            THEN written @@ [result |-> MeshPanicked]
            ELSE IF fail # "none"
            THEN written @@ [result |-> MeshDeviceError]
            ELSE [written EXCEPT !.drawn = objects] @@ [result |-> MeshOk]

(* History of the last MeshRenderer call *)

MeshLogNew ==
    [call |-> "none", image_index |-> NoImage, objects |-> 0,
     result |-> "none", stored |-> 0, reach |-> 0, drawn |-> 0, size |-> 0]

\* MeshRenderer::new(context, layout_cache, allocator, image_count): one
\* FrameData per image, or the first error of FrameData::new
MeshRendererNew ==
    /\ mesh_renderer = NoMeshRenderer
    /\ \E image_count \in 1 .. MaxImages, ok \in BOOLEAN :
         /\ mesh_renderer' =
               IF ok THEN [frames |-> [i \in 1 .. image_count |-> FrameDataNew]]
               ELSE NoMeshRenderer
         /\ mesh_log' = [MeshLogNew EXCEPT
                            !.call = "new", !.objects = image_count,
                            !.result = IF ok THEN MeshOk ELSE MeshDeviceError]
    /\ UNCHANGED not_mesh_vars

\* MeshRenderer::draw for an image of the swapchain
MeshRendererDraw ==
    /\ mesh_renderer # NoMeshRenderer
    /\ mesh_log.result # MeshPanicked
    /\ \E index \in 0 .. (Len(mesh_renderer.frames) - 1),
          objects \in SceneSizes,
          fail \in {"none"} \cup Fallible(write_mapped_persistent) :
       \E d \in { MeshDraw(mesh_renderer, index, objects, fail) } :
            /\ mesh_renderer' = [frames |-> d.frames]
            /\ mesh_log' =
                  [call |-> "draw", image_index |-> index, objects |-> objects,
                   result |-> d.result, stored |-> d.stored, reach |-> d.reach,
                   drawn |-> d.drawn,
                   size |-> mesh_renderer.frames[index + 1].object_buffer.size]
    /\ UNCHANGED not_mesh_vars
----------------------------------------------------------------------------
(* Physical-device selection (src/src/device.rs)                           *)
(*                                                                         *)
(* A physical device is the vk::PhysicalDevice handle the instance         *)
(* enumerates it under and what the instance and the surface report about  *)
(* it. Handles are opaque: their order is independent of the properties    *)
(* of the devices.                                                         *)

\* what rate_physical_device requires of a device, in the order checked
Requirements ==
    << "extensions", "formats", "present_modes", "graphics", "present" >>

\* a device that meets every requirement; query_error: one of the calls
\* rate_physical_device makes to query the device returns an error
PhysicalDevice(handle, device_type, dimension, push) ==
    [handle |-> handle, device_type |-> device_type,
     max_image_dimension2_d |-> dimension, max_push_constants_size |-> push,
     extensions |-> TRUE, formats |-> 1, present_modes |-> 1,
     graphics |-> TRUE, present |-> TRUE, query_error |-> FALSE]

\* the same device without one requirement
Lacking(d, requirement) ==
    CASE requirement = "extensions" -> [d EXCEPT !.extensions = FALSE]
      [] requirement = "formats" -> [d EXCEPT !.formats = 0]
      [] requirement = "present_modes" -> [d EXCEPT !.present_modes = 0]
      [] requirement = "graphics" -> [d EXCEPT !.graphics = FALSE]
      [] requirement = "present" -> [d EXCEPT !.present = FALSE]
      [] requirement = "query" -> [d EXCEPT !.query_error = TRUE]

DeviceTypes == {"DISCRETE_GPU", "INTEGRATED_GPU"}

\* the limits of the devices of the model: small ones, and ones that
\* outweigh the bonus of a discrete GPU
Dimensions == {MaxLimit, DISCRETE_BONUS + MaxLimit}

PushSizes == {0, MaxLimit}

\* the devices of the model under the handle handle: every type and
\* limits with nothing lacking, and the weakest and the strongest device
\* with one requirement lacking
DevicesOf(handle) ==
    LET suitable ==
            { PhysicalDevice(handle, t, dim, push) :
                  t \in DeviceTypes, dim \in Dimensions, push \in PushSizes }
        extremes ==
            { PhysicalDevice(handle, "INTEGRATED_GPU", MaxLimit, 0),
              PhysicalDevice(handle, "DISCRETE_GPU", DISCRETE_BONUS + MaxLimit,
                             MaxLimit) }
    IN suitable \cup
       { Lacking(d, r) : d \in extremes,
                         r \in Steps(Requirements) \cup {"query"} }

\* the ways n devices carry the handles 1 .. n
HandleOrders(n) ==
    { hs \in [1 .. n -> 1 .. n] : \A i, j \in 1 .. n : hs[i] = hs[j] => i = j }

\* what instance.enumerate_physical_devices() returns when the devices ds
\* carry the handles hs
DeviceList(ds, hs) ==
    [i \in DOMAIN ds |-> [ds[i] EXCEPT !.handle = hs[i]]]

\* rate_physical_device without the check of the present queue family
Eligible_WithoutPresent(d) ==
    /\ ~d.query_error
    /\ d.extensions
    /\ ~(d.formats = 0 \/ d.present_modes = 0)
    /\ d.graphics

\* get_missing_extensions(..).ok()?.is_empty(), query_support(..).ok()?,
\* QueueFamilies::find(..).ok()? and the checks on what they return: the
\* device is rated
Eligible(d) ==
    /\ ~d.query_error
    /\ d.extensions
    /\ ~(d.formats = 0 \/ d.present_modes = 0)
    /\ d.graphics
    /\ d.present

\* the score of a valid device
Score(d) ==
    (IF d.device_type = "DISCRETE_GPU" THEN DISCRETE_BONUS ELSE 0)
        + d.max_image_dimension2_d + d.max_push_constants_size

\* rate_physical_device: None (<< >>) or Some((device, score, _))
rate_physical_device(d) ==
    IF Eligible(d) THEN << [device |-> d.handle, score |-> Score(d)] >>
    ELSE << >>

\* devices.into_iter().filter_map(rate_physical_device)
RECURSIVE filter_map(_)
filter_map(devices) ==
    IF devices = << >> THEN << >>
    ELSE rate_physical_device(Head(devices)) \o filter_map(Tail(devices))

\* the key of max_by_key: |v| v.0, the first member of the tuple
SelectionKey(v) == v.device

\* Iterator::max_by_key on a non-empty sequence: the element with the
\* maximum key, the last one if several have it
max_by_key(rated) ==
    LET i == CHOOSE i \in 1 .. Len(rated) :
                 /\ \A j \in 1 .. Len(rated) :
                       SelectionKey(rated[j]) <= SelectionKey(rated[i])
                 /\ \A j \in (i + 1) .. Len(rated) :
                       SelectionKey(rated[j]) < SelectionKey(rated[i])
    IN rated[i]

\* no physical device (vk::PhysicalDevice::null())
NoDevice == 0

\* pick_physical_device: Ok with the handle picked, or UnsuitableDevice
pick_physical_device(devices) ==
    LET rated == filter_map(devices)
    IN IF rated = << >>
       THEN [result |-> "UnsuitableDevice", physical_device |-> NoDevice]
       ELSE [result |-> "Ok", physical_device |-> max_by_key(rated).device]

\* device::create: the physical device picked and whether a logical device
\* was created. fail is the call that returns a Vulkan error ("none": no
\* call does).
create(devices, fail) ==
    IF fail = "enumerate_physical_devices"
    THEN [result |-> "VulkanError", physical_device |-> NoDevice,
          created |-> FALSE]
    ELSE
      LET picked == pick_physical_device(devices)
      IN IF picked.result # "Ok" THEN picked @@ [created |-> FALSE]
         ELSE IF fail = "create_device"
         THEN [result |-> "VulkanError",
               physical_device |-> picked.physical_device, created |-> FALSE]
         ELSE picked @@ [created |-> TRUE]

(* History of device::create *)

DeviceLogNew ==
    [call |-> "none", result |-> "none", physical_device |-> NoDevice,
     created |-> FALSE, enumerated |-> FALSE]

\* device::create(instance, surface_loader, surface, layers)
DeviceCreate ==
    /\ device_log.call = "none"
    /\ \E fail \in {"none", "enumerate_physical_devices", "create_device"} :
       \E c \in { create(physical_devices, fail) } :
            device_log' = [call |-> "create", result |-> c.result,
                           physical_device |-> c.physical_device,
                           created |-> c.created,
                           enumerated |-> fail # "enumerate_physical_devices"]
    /\ UNCHANGED physical_devices
    /\ UNCHANGED not_device_vars
----------------------------------------------------------------------------
(* Swapchain::new for every surface (src/src/vulkan/swapchain.rs)          *)
(*                                                                         *)
(* The frame loop above runs on surfaces with few images. Here             *)
(* Swapchain::new is run on every value of the two image counts of the     *)
(* surface capabilities and on every number of images the presentation     *)
(* engine returns.                                                         *)

\* capabilities.min_image_count and max_image_count: any two values
AllCapabilities ==
    [min_image_count : 0 .. WordMax, max_image_count : 0 .. WordMax]

\* the numbers of images get_swapchain_images can return for a swapchain
\* created with min_image_count = requested: at least one, at least the
\* number requested, possibly more
ReturnedCounts(requested) ==
    (IF requested < 1 THEN 1 ELSE requested) .. (MAX_FRAMES + MaxExtraImages)

\* the calls of Swapchain::new that return a Result
SwapchainNewCalls ==
    << "query_support", "create_swapchain", "get_swapchain_images",
       "from_image" >>

SwapchainLogNew ==
    [call |-> "none", queried |-> FALSE, requested |-> 0, images |-> 0,
     result |-> "none"]

\* Swapchain::new(context, swapchain_loader, window), as called by
\* MasterRenderer::new and by every resize. overflow_checks: the build
\* panics on an arithmetic overflow instead of wrapping.
SwapchainCreate ==
    /\ swapchain_log.result # "Panicked"
    /\ \E overflow_checks \in BOOLEAN,
          fail \in {"none"} \cup Steps(SwapchainNewCalls) :
         LET caps == capabilities
             requested == RequestedImageCount(caps.min_image_count,
                                              caps.max_image_count)
             entry == [SwapchainLogNew EXCEPT
                          !.call = "new",
                          !.queried = fail # "query_support"]
         IN IF fail = "query_support"
            THEN swapchain_log' = [entry EXCEPT !.result = "Err"]
            ELSE IF Overflowing(caps.min_image_count, 1) /\ overflow_checks
            THEN swapchain_log' = [entry EXCEPT !.result = "Panicked"]
            ELSE IF fail = "create_swapchain"
            THEN swapchain_log' = [entry EXCEPT !.requested = requested,
                                                !.result = "Err"]
            ELSE \E n \in ReturnedCounts(requested) :
                    swapchain_log' =
                        [entry EXCEPT !.requested = requested, !.images = n,
                                      !.result = IF fail = "none" THEN "Ok"
                                                 ELSE "Err"]
    /\ UNCHANGED capabilities
    /\ UNCHANGED not_surface_vars
----------------------------------------------------------------------------
(* ResourceCache and ResourceManager (src/src/resources/cache.rs,          *)
(* handle.rs, manager.rs)                                                  *)
(*                                                                         *)
(* A cache holds its resources in a generational arena and maps names to   *)
(* handles.  A handle wraps an arena index: a slot number, counted from 0, *)
(* and the generation the slot had when the resource was inserted.  The    *)
(* cache has no operation that removes a resource, so the arena never      *)
(* frees a slot: its generation stays 0 and the slots fill in ascending    *)
(* order.                                                                  *)

ResourceKinds == {"effects", "textures", "materials"}

ResourceNames == {"a", "b"}

\* Handle<R>: the arena index it wraps
Handle(index, generation) == [index |-> index, generation |-> generation]

\* the handle field of a result that carries none
NoHandle == Handle(-1, 0)

\* the resource field of a result that carries none
NoResource == [name |-> "none", kind |-> "none"]

\* the resource the loader of a cache makes for a name
Resource(kind, name) == [name |-> name, kind |-> kind]

\* the handles a caller can hold: those a cache gave out, and others with
\* a slot or a generation no cache gave out
CallerHandles ==
    { Handle(i, g) : i \in 0 .. Cardinality(ResourceNames), g \in {0, 1} }

\* Arena::new
ArenaNew == [items |-> << >>, generation |-> 0]

\* Arena::insert: the value goes to the first free slot
ArenaInsert(arena, value) ==
    [arena |-> [arena EXCEPT
                   !.items = Append(@, [generation |-> arena.generation,
                                        value |-> value])],
     index |-> Handle(Len(arena.items), arena.generation)]

\* Arena::get that does not compare the generations
ArenaGet_AnyGeneration(arena, index) ==
    IF index.index \in 0 .. (Len(arena.items) - 1)
    THEN [some |-> TRUE, value |-> arena.items[index.index + 1].value]
    ELSE [some |-> FALSE, value |-> NoResource]

\* Arena::get: the value of an occupied slot of the same generation
ArenaGet(arena, index) ==
    IF /\ index.index \in 0 .. (Len(arena.items) - 1)
       /\ arena.items[index.index + 1].generation = index.generation
    THEN [some |-> TRUE, value |-> arena.items[index.index + 1].value]
    ELSE [some |-> FALSE, value |-> NoResource]

\* ResourceCache::new
ResourceCacheNew == [resources |-> ArenaNew, name_cache |-> << >>]

\* HashMap::get(name).is_some()
Cached_Never(c, name) == FALSE

Cached(c, name) == name \in DOMAIN c.name_cache

\* HashMap::insert
MapInsert(map, key, value) ==
    [k \in DOMAIN map \cup {key} |-> IF k = key THEN value ELSE map[k]]

\* what the calls on a cache return
CacheOk(handle, resource) ==
    [kind |-> "Ok", handle |-> handle, resource |-> resource]

NotFound == [kind |-> "NotFound", handle |-> NoHandle, resource |-> NoResource]

InvalidHandle ==
    [kind |-> "InvalidHandle", handle |-> NoHandle, resource |-> NoResource]

\* the error the closure given to insert returned
OpFailed == [kind |-> "Err", handle |-> NoHandle, resource |-> NoResource]

\* ResourceCache::get
Get(c, name) ==
    IF Cached(c, name)
    THEN CacheOk(c.name_cache[name], NoResource)
    ELSE NotFound

\* ResourceCache::raw
Raw(c, handle) ==
    LET found == ArenaGet(c.resources, handle)
    IN IF found.some THEN CacheOk(handle, found.value) ELSE InvalidHandle

\* ResourceCache::insert(name, op): the cache it leaves, what it returns
\* and how often it called op.  op is what the closure returns when called.
Insert(c, name, op) ==
    IF Cached(c, name)
    THEN [cache |-> c, result |-> CacheOk(c.name_cache[name], NoResource),
          invoked |-> 0]
    ELSE IF ~op.ok
    THEN [cache |-> c, result |-> OpFailed, invoked |-> 1]
    ELSE LET inserted == ArenaInsert(c.resources, op.resource)
         IN [cache |-> [resources |-> inserted.arena,
                        name_cache |-> MapInsert(c.name_cache, name,
                                                 inserted.index)],
             result |-> CacheOk(inserted.index, NoResource),
             invoked |-> 1]

\* what a closure returns
Op(ok, resource) == [ok |-> ok, resource |-> resource]

\* ResourceManager::new: five empty caches, three of them modelled
CachesNew == [k \in ResourceKinds |-> ResourceCacheNew]

CacheLogNew ==
    [call |-> "none", kind |-> "none", name |-> "none", handle |-> NoHandle,
     result |-> NotFound, invoked |-> 0]

CacheLog(call, kind, name, handle, r, invoked) ==
    [call |-> call, kind |-> kind, name |-> name, handle |-> handle,
     result |-> r, invoked |-> invoked]

\* an insert on the cache of one kind, as the load_ functions make it
CacheInsert(call, kind, name, op) ==
    LET ins == Insert(caches[kind], name, op)
    IN /\ caches' = [caches EXCEPT ![kind] = ins.cache]
       /\ cache_log' = CacheLog(call, kind, name, NoHandle, ins.result,
                                ins.invoked)

\* ResourceManager::load_effect: the closure cannot fail
LoadEffect ==
    /\ \E name \in ResourceNames :
          CacheInsert("load_effect", "effects", name,
                      Op(TRUE, Resource("effects", name)))
    /\ UNCHANGED not_cache_vars

\* ResourceManager::load_texture: Texture::load can fail
LoadTexture ==
    /\ \E name \in ResourceNames, ok \in BOOLEAN :
          CacheInsert("load_texture", "textures", name,
                      Op(ok, Resource("textures", name)))
    /\ UNCHANGED not_cache_vars

\* ResourceManager::load_material: the effect and the albedo texture are
\* looked up first, then the material is inserted; Material::new can fail
LoadMaterial ==
    /\ \E name \in ResourceNames, effect \in ResourceNames,
          albedo \in ResourceNames, ok \in BOOLEAN :
          IF Get(caches["effects"], effect).kind # "Ok"
             \/ Get(caches["textures"], albedo).kind # "Ok"
          THEN /\ caches' = caches
               /\ cache_log' = CacheLog("load_material", "materials", name,
                                        NoHandle, NotFound, 0)
          ELSE CacheInsert("load_material", "materials", name,
                           Op(ok, Resource("materials", name)))
    /\ UNCHANGED not_cache_vars

\* ResourceManager::effect, texture and material: ResourceCache::get
CacheGet ==
    /\ \E kind \in ResourceKinds, name \in ResourceNames :
          cache_log' = CacheLog("get", kind, name, NoHandle,
                                Get(caches[kind], name), 0)
    /\ UNCHANGED caches
    /\ UNCHANGED not_cache_vars

\* ResourceCache::raw with any handle the caller holds
CacheRaw ==
    /\ \E kind \in ResourceKinds, handle \in CallerHandles :
          cache_log' = CacheLog("raw", kind, "none", handle,
                                Raw(caches[kind], handle), 0)
    /\ UNCHANGED caches
    /\ UNCHANGED not_cache_vars

----------------------------------------------------------------------------
(* Mesh::from_gltf and pad_vec (src/src/mesh.rs)                           *)
(*                                                                         *)
(* usize is modelled with WordBits bits.  A vector is a sequence; an       *)
(* element read from the file carries its position, a padding element is   *)
(* the value pad_vec was given.                                            *)

\* overflow checks are on in a debug build and off in a release build
Builds == {"debug", "release"}

\* the vector load_vec3 or load_vec2 reads from an accessor of n elements
Loaded(n) == [i \in 1 .. n |-> [from |-> "file", idx |-> i - 1]]

\* the values from_gltf pads with
UnitZ == [from |-> "unit_z", idx |-> 0]

Zero == [from |-> "zero", idx |-> 0]

\* a - b on usize with the overflow check off
wrapping_sub(a, b) == (a - b + WordMax + 1) % (WordMax + 1)

\* pad_vec that adds nothing to a vector of len elements or more
pad_vec_Saturating(vec, val, len, build) ==
    [vec |-> vec \o [i \in 1 .. (len - Len(vec)) |-> val], panic |-> "none"]

\* pad_vec(vec, val, len): vec.extend(repeat(val).take(len - vec.len())).
\* The subtraction panics in a debug build when vec is longer than len; in
\* a release build it wraps, and extend panics when the new length does
\* not fit a usize.
pad_vec(vec, val, len, build) ==
    IF build = "debug" /\ len < Len(vec)
    THEN [vec |-> vec, panic |-> "subtract with overflow"]
    ELSE LET n == wrapping_sub(len, Len(vec))
         IN IF Overflowing(Len(vec), n)
            THEN [vec |-> vec, panic |-> "capacity overflow"]
            ELSE [vec |-> vec \o [i \in 1 .. n |-> val], panic |-> "none"]

\* Mesh::from_soa: vertex i is made of positions[i], normals[i] and
\* texcoords[i]; an index past the end of a slice panics
from_soa(positions, normals, texcoords) ==
    IF \A i \in 1 .. Len(positions) : i <= Len(normals) /\ i <= Len(texcoords)
    THEN "none"
    ELSE "index out of bounds"

GltfLogNew ==
    [call |-> "none", vec |-> << >>, val |-> Zero, len |-> 0,
     padded |-> << >>, texcoords |-> << >>, panic |-> "none",
     result |-> "none"]

\* pad_vec on a vector of n elements
PadVec ==
    /\ \E n \in 0 .. MaxVertices, len \in 0 .. MaxVertices,
          val \in {UnitZ, Zero}, build \in Builds :
          LET r == pad_vec(Loaded(n), val, len, build)
          IN gltf_log' = [call |-> "pad_vec", vec |-> Loaded(n), val |-> val,
                          len |-> len, padded |-> r.vec, texcoords |-> << >>,
                          panic |-> r.panic,
                          result |-> IF r.panic = "none" THEN "Ok" ELSE "panic"]
    /\ UNCHANGED not_gltf_vars

\* Mesh::from_gltf on a primitive whose POSITION, NORMAL and TEXCOORD
\* accessors hold p, n and t elements (0 if the attribute is absent):
\* the normals are padded, then the texcoords, then from_soa and Mesh::new
\* run; the log keeps the padding of the normals and the texcoords
\* from_soa is given
MeshFromGltf ==
    /\ \E p \in 0 .. MaxVertices, n \in 0 .. MaxVertices,
          t \in 0 .. MaxVertices, build \in Builds, created \in BOOLEAN :
          LET normals == pad_vec(Loaded(n), UnitZ, p, build)
              texcoords == pad_vec(Loaded(t), Zero, p, build)
              panic == IF normals.panic # "none" THEN normals.panic
                       ELSE IF texcoords.panic # "none" THEN texcoords.panic
                       ELSE from_soa(Loaded(p), normals.vec, texcoords.vec)
          IN gltf_log' = [call |-> "from_gltf", vec |-> Loaded(n),
                          val |-> UnitZ, len |-> p, padded |-> normals.vec,
                          texcoords |-> IF normals.panic = "none"
                                        THEN texcoords.vec ELSE Loaded(t),
                          panic |-> panic,
                          result |-> IF panic # "none" THEN "panic"
                                     ELSE IF created THEN "Ok" ELSE "Err"]
    /\ UNCHANGED not_gltf_vars

----------------------------------------------------------------------------
(* MasterRenderer *)

\* no Buffer exists
BufferIdle ==
    /\ buffer = NoBuffer
    /\ buffer_log = BufferLogNew

\* the ResourceManager holds no resource
CacheIdle ==
    /\ caches = CachesNew
    /\ cache_log = CacheLogNew

\* no mesh is being loaded
GltfIdle ==
    /\ gltf_log = GltfLogNew

\* the life of the Buffer is not followed
StagingIdle ==
    /\ buffer_life = BufferLifeNew

\* no descriptor pool was destroyed
PoolIdle ==
    /\ pool_life = PoolLifeNew

\* the DescriptorAllocator of MasterRenderer::new, before its first call
AllocatorIdle ==
    /\ allocator = DescriptorAllocatorNew(FRAMES_IN_FLIGHT)
    /\ device_pools = << >>
    /\ alloc_log = AllocLogNew
    /\ cycle = NoCycle

\* no MeshRenderer exists
MeshIdle ==
    /\ mesh_renderer = NoMeshRenderer
    /\ mesh_log = MeshLogNew

\* device::create picked the only physical device
DeviceIdle ==
    /\ physical_devices = << PhysicalDevice(1, "DISCRETE_GPU", MaxLimit, 0) >>
    /\ device_log = [call |-> "create", result |-> "Ok", physical_device |-> 1,
                     created |-> TRUE, enumerated |-> TRUE]

\* Swapchain::new is only run by the frame loop
SurfaceIdle ==
    /\ capabilities = [min_image_count |-> FRAMES_IN_FLIGHT - 1,
                       max_image_count |-> 0]
    /\ swapchain_log = SwapchainLogNew

\* the lifetimes of the device objects are not followed
LifetimeIdle ==
    /\ alive = {}
    /\ destroyed = << >>
    /\ script = << >>
    /\ context_refs = 0
    /\ lifetime = [phase |-> "none", gen |-> 0, app_holds |-> FALSE,
                   surface_format |-> PreferredFormat]

\* the parts of the model besides the frame loop are not in use
ResourcesIdle ==
    /\ BufferIdle
    /\ AllocatorIdle
    /\ MeshIdle
    /\ DeviceIdle
    /\ SurfaceIdle
    /\ LifetimeIdle
    /\ StagingIdle
    /\ PoolIdle
    /\ CacheIdle
    /\ GltfIdle

\* the same without the DescriptorAllocator
NotAllocatorIdle ==
    /\ BufferIdle
    /\ MeshIdle
    /\ DeviceIdle
    /\ SurfaceIdle
    /\ LifetimeIdle
    /\ StagingIdle
    /\ PoolIdle
    /\ CacheIdle
    /\ GltfIdle

\* the same without the device
NotDeviceIdle ==
    /\ BufferIdle
    /\ AllocatorIdle
    /\ MeshIdle
    /\ SurfaceIdle
    /\ LifetimeIdle
    /\ StagingIdle
    /\ PoolIdle
    /\ CacheIdle
    /\ GltfIdle

\* the same without the surface
NotSurfaceIdle ==
    /\ BufferIdle
    /\ AllocatorIdle
    /\ MeshIdle
    /\ DeviceIdle
    /\ LifetimeIdle
    /\ StagingIdle
    /\ PoolIdle
    /\ CacheIdle
    /\ GltfIdle

\* the same without the lifetimes
NotLifetimeIdle ==
    /\ BufferIdle
    /\ AllocatorIdle
    /\ MeshIdle
    /\ DeviceIdle
    /\ SurfaceIdle
    /\ StagingIdle
    /\ PoolIdle
    /\ CacheIdle
    /\ GltfIdle

\* the state MasterRenderer::new leaves
Init ==
    /\ pc = "idle"
    /\ result = "none"
    /\ should_resize = FALSE
    /\ current_frame = 0
    /\ fence_signaled = [f \in FrameSlots |-> TRUE]
    /\ pending = {}
    /\ swapchain \in NewSwapchains
    /\ per_frame_data = NewPerFrameData(swapchain)
    /\ renderpass = "h0"
    /\ pipeline = "h0"
    /\ image_index = NoImage
    /\ log = LogNew(FALSE)
    /\ semaphores = SemaphoresNew
    /\ ResourcesIdle

\* on_resize(), called by the window's resize event between two draw() calls
OnResize ==
    /\ pc = "idle"
    /\ should_resize' = TRUE
    /\ UNCHANGED <<not_frame_vars, semaphores>>
    /\ UNCHANGED <<pc, result, current_frame, fence_signaled, pending, swapchain,
                   per_frame_data, renderpass, pipeline, image_index, log>>

\* draw() returns Ok to the loop
ReturnOk ==
    /\ pc' = "idle"
    /\ result' = "Ok"
    /\ image_index' = NoImage

\* draw() that drops the error of a fallible call and returns Ok
Fail_Swallowed ==
    /\ pc' = "idle"
    /\ result' = "Ok"
    /\ image_index' = NoImage

\* a fallible call failed: draw() returns the error and the loop ends
Fail ==
    /\ pc' = "failed"
    /\ result' = "Err"
    /\ image_index' = NoImage

\* resize() that leaves should_resize set
ResizeBegin_KeepsFlag ==
    /\ should_resize' = should_resize
    /\ pc' = "wait_idle"

\* resize(): the flag is cleared, then the device-idle wait starts
ResizeBegin ==
    /\ should_resize' = FALSE
    /\ pc' = "wait_idle"

\* draw() entered; if should_resize, resize() is called first
DrawBegin ==
    /\ pc = "idle"
    /\ result' = "none"
    /\ UNCHANGED <<not_frame_vars, semaphores>>
    /\ IF should_resize
       THEN /\ ResizeBegin
            /\ log' = [LogNew(TRUE) EXCEPT !.blocked_idle = pending # {}]
       ELSE /\ should_resize' = should_resize
            /\ pc' = "wait_frame"
            /\ log' = [LogNew(FALSE) EXCEPT
                          !.blocked_frame = ~fence_signaled[current_frame]]
    /\ UNCHANGED <<current_frame, fence_signaled, pending, swapchain,
                   per_frame_data, renderpass, pipeline, image_index>>

\* resize(): device::wait_idle
ResizeWaitIdle ==
    /\ pc = "wait_idle"
    /\ UNCHANGED <<not_frame_vars, semaphores>>
    /\ \/ /\ device_wait_idle
          /\ pc' = "rebuild"
          /\ UNCHANGED <<result, image_index, log>>
       \/ Fail /\ log' = LogFailed(log, "wait_idle")
    /\ UNCHANGED <<should_resize, current_frame, fence_signaled, pending, swapchain,
                   per_frame_data, renderpass, pipeline>>

\* the fallible steps of resize() after the device-idle wait, in order
ResizeStages ==
    << "swapchain", "color_attachment", "depth_attachment", "renderpass",
       "shaders", "pipeline", "commandpool", "descriptor_allocator",
       "per_frame_data", "record" >>

StageIndex(stage) == CHOOSE i \in 1 .. Len(ResizeStages) : ResizeStages[i] = stage

\* stage ran to completion when the first failing stage is fail_at
\* (fail_at = 0: no stage fails)
StageDone(stage, fail_at) == fail_at = 0 \/ StageIndex(stage) < fail_at

\* a handle returned by a create call made while the object old is alive
FreshHandles(old) == Handles \ {old}

\* resize() that recreates the renderpass on every call
RenderpassKept_Never(old_format, new_format) == FALSE

\* resize() recreates the renderpass only if the surface format changed
RenderpassKept(old_format, new_format) == old_format = new_format

\* resize() that keeps the pipeline when the surface format is unchanged
PipelineKept_SameFormat(old_format, new_format) == old_format = new_format

\* resize() creates a new pipeline on every call
PipelineKept(old_format, new_format) == FALSE

\* resize() after device::wait_idle returned: everything it replaces, up to
\* its first failing call
ResizeRebuild ==
    /\ pc = "rebuild"
    /\ UNCHANGED <<not_frame_vars, semaphores>>
    /\ \E new_swapchain \in NewSwapchains, fail_at \in 0 .. Len(ResizeStages),
          rp \in FreshHandles(renderpass), pl \in FreshHandles(pipeline) :
       \E built \in IF fail_at = StageIndex("per_frame_data")
                    THEN 0 .. (new_swapchain.images - 1) ELSE {0} :
         LET old_format == swapchain.surface_format
             new_format == new_swapchain.surface_format
             new_rp == ~RenderpassKept(old_format, new_format)
             new_pl == ~PipelineKept(old_format, new_format)
             replaced ==
                 { st \in {"swapchain", "color_attachment", "depth_attachment",
                           "per_frame_data"} : StageDone(st, fail_at) }
                 \cup (IF new_rp /\ StageDone("renderpass", fail_at)
                       THEN {"renderpass"} ELSE {})
                 \cup (IF new_pl /\ StageDone("pipeline", fail_at)
                       THEN {"pipeline"} ELSE {})
         IN
         /\ swapchain' = IF StageDone("swapchain", fail_at)
                         THEN new_swapchain ELSE swapchain
         /\ renderpass' = IF new_rp /\ StageDone("renderpass", fail_at)
                          THEN rp ELSE renderpass
         /\ pipeline' = IF new_pl /\ StageDone("pipeline", fail_at)
                        THEN pl ELSE pipeline
         \* PerFrameData::new failing for image number `built` leaves the
         \* entries pushed before it
         /\ per_frame_data' =
               IF StageDone("per_frame_data", fail_at)
               THEN NewPerFrameData(new_swapchain)
               ELSE IF fail_at = StageIndex("per_frame_data")
                    THEN [i \in 0 .. (built - 1) |-> PerFrameDataNew]
                    ELSE per_frame_data
         /\ IF fail_at = 0
            THEN /\ pc' = "wait_frame"
                 /\ log' = [log EXCEPT
                        !.rebuilt = replaced,
                        !.format_changed = old_format # new_format,
                        !.resizes = @ + 1,
                        !.blocked_frame = ~fence_signaled[current_frame]]
                 /\ UNCHANGED <<result, image_index>>
            ELSE /\ Fail
                 /\ log' = LogFailed(log, ResizeStages[fail_at])
    /\ UNCHANGED <<should_resize, current_frame, fence_signaled, pending>>

\* draw() without the wait on the slot's fence
FrameFenceReady_Skipped == TRUE

\* the fence draw() waits on before it reuses the slot current_frame
FrameFenceReady == fence_wait(current_frame)

\* draw(): fence::wait on in_flight_fences[current_frame]
WaitFrameFence ==
    /\ pc = "wait_frame"
    /\ UNCHANGED <<not_frame_vars, semaphores>>
    /\ \/ /\ FrameFenceReady
          /\ pc' = "acquire"
          /\ UNCHANGED <<result, image_index, log>>
       \/ Fail /\ log' = LogFailed(log, "wait_frame")
    /\ UNCHANGED <<should_resize, current_frame, fence_signaled, pending, swapchain,
                   per_frame_data, renderpass, pipeline>>

\* draw() that resets the slot's fence before next_image, so that the
\* out-of-date return leaves it unsignaled
AcquireOutOfDate_ResetsFence ==
    /\ should_resize' = TRUE
    /\ ReturnOk
    /\ log' = LogReturned([log EXCEPT !.acquire = "out_of_date"])
    /\ fence_signaled' = [fence_signaled EXCEPT ![current_frame] = FALSE]
    /\ UNCHANGED <<current_frame, pending, swapchain, per_frame_data, renderpass,
                   pipeline>>

\* draw() that advances current_frame on the out-of-date return
AcquireOutOfDate_Advances ==
    /\ should_resize' = TRUE
    /\ ReturnOk
    /\ log' = LogReturned([log EXCEPT !.acquire = "out_of_date"])
    /\ current_frame' = (current_frame + 1) % FRAMES_IN_FLIGHT
    /\ UNCHANGED <<fence_signaled, pending, swapchain, per_frame_data, renderpass,
                   pipeline>>

\* draw(): next_image returned ERROR_OUT_OF_DATE_KHR: on_resize(), return Ok
AcquireOutOfDate ==
    /\ should_resize' = TRUE
    /\ ReturnOk
    /\ log' = LogReturned([log EXCEPT !.acquire = "out_of_date"])
    /\ UNCHANGED <<current_frame, fence_signaled, pending, swapchain,
                   per_frame_data, renderpass, pipeline>>

\* draw(): Swapchain::next_image and the match on its result.  The
\* presentation engine may hand out any image of the swapchain.
AcquireImage ==
    /\ pc = "acquire"
    /\ UNCHANGED not_frame_vars
    /\ \/ \E i \in ImageRange(swapchain) :
            /\ image_index' = i
            /\ pc' = "wait_image"
            /\ log' = [log EXCEPT
                   !.acquire = "ok",
                   !.blocked_image =
                       (per_frame_data[i].image_in_flight # NullFence
                        /\ ~fence_signaled[per_frame_data[i].image_in_flight])]
            /\ semaphores' = Signaled(semaphores, "image_available", current_frame)
            /\ UNCHANGED <<result, should_resize, current_frame, fence_signaled,
                           pending, swapchain, per_frame_data, renderpass, pipeline>>
       \/ AcquireOutOfDate /\ UNCHANGED semaphores
       \/ /\ Fail
          /\ UNCHANGED semaphores
          /\ log' = LogFailed([log EXCEPT !.acquire = "error"], "next_image")
          /\ UNCHANGED <<should_resize, current_frame, fence_signaled, pending,
                         swapchain, per_frame_data, renderpass, pipeline>>

\* draw() without the wait on the image's fence
ImageFenceReady_Skipped(data) == TRUE

\* the fence draw() waits on for the acquired image, if any
ImageFenceReady(data) ==
    data.image_in_flight # NullFence => fence_wait(data.image_in_flight)

\* draw(): wait if a previous frame is using this image
WaitImageFence ==
    /\ pc = "wait_image"
    /\ UNCHANGED <<not_frame_vars, semaphores>>
    /\ \/ /\ ImageFenceReady(per_frame_data[image_index])
          /\ pc' = "submit"
          /\ UNCHANGED <<result, image_index, log>>
       \/ /\ per_frame_data[image_index].image_in_flight # NullFence
          /\ Fail
          /\ log' = LogFailed(log, "wait_image")
    /\ UNCHANGED <<should_resize, current_frame, fence_signaled, pending, swapchain,
                   per_frame_data, renderpass, pipeline>>

\* the fallible calls of draw() between the image wait and present, in order
SubmitStages == << "reset", "fill", "submit" >>

SubmitIndex(stage) == CHOOSE i \in 1 .. Len(SubmitStages) : SubmitStages[i] = stage

SubmitDone(stage, fail_at) == fail_at = 0 \/ SubmitIndex(stage) < fail_at

\* draw(): mark the image with the slot's fence, reset the fence, write the
\* uniform buffer and submit the image's command buffer with the fence
RecordSubmit ==
    /\ pc = "submit"
    /\ UNCHANGED not_frame_vars
    /\ \E fail_at \in 0 .. Len(SubmitStages) :
         /\ per_frame_data' =
               [per_frame_data EXCEPT ![image_index].image_in_flight = current_frame]
         /\ fence_signaled' =
               IF SubmitDone("reset", fail_at)
               THEN [fence_signaled EXCEPT ![current_frame] = FALSE]
               ELSE fence_signaled
         /\ pending' =
               IF SubmitDone("submit", fail_at)
               THEN pending \cup {Submission(current_frame, image_index)}
               ELSE pending
         /\ semaphores' =
               IF SubmitDone("submit", fail_at)
               THEN Submitted(semaphores, current_frame)
               ELSE semaphores
         /\ LET written == [log EXCEPT
                                !.wrote_uniform = SubmitDone("fill", fail_at),
                                !.submitted = SubmitDone("submit", fail_at)]
            IN IF fail_at = 0
               THEN /\ pc' = "present"
                    /\ log' = written
                    /\ UNCHANGED <<result, image_index>>
               ELSE /\ Fail
                    /\ log' = LogFailed(written, SubmitStages[fail_at])
    /\ UNCHANGED <<should_resize, current_frame, swapchain, renderpass, pipeline>>

\* draw() after present returned Ok(suboptimal): the flag is bound to
\* _suboptimal and not used
AfterPresent(suboptimal) == should_resize

\* draw() after present returned ERROR_OUT_OF_DATE_KHR: on_resize() and
\* return Ok before current_frame is advanced
PresentOutOfDate ==
    /\ should_resize' = TRUE
    /\ current_frame' = current_frame
    /\ ReturnOk
    /\ log' = LogReturned([log EXCEPT !.present = "out_of_date"])

\* draw(): Swapchain::present, the match on its result and the advance of
\* current_frame
Present ==
    /\ pc = "present"
    /\ UNCHANGED not_frame_vars
    /\ \/ \E suboptimal \in BOOLEAN :
            /\ should_resize' = AfterPresent(suboptimal)
            /\ current_frame' = (current_frame + 1) % FRAMES_IN_FLIGHT
            /\ ReturnOk
            /\ log' = LogReturned([log EXCEPT
                          !.present = IF suboptimal THEN "suboptimal" ELSE "ok"])
            /\ semaphores' = Waited(semaphores, "render_finished",
                                    signal_semaphores(current_frame))
       \/ /\ PresentOutOfDate
          /\ semaphores' = Waited(semaphores, "render_finished",
                                  signal_semaphores(current_frame))
       \/ /\ Fail
          /\ log' = LogFailed([log EXCEPT !.present = "error"], "present")
          /\ \E queued \in BOOLEAN :
                semaphores' = IF queued
                              THEN Waited(semaphores, "render_finished",
                                          signal_semaphores(current_frame))
                              ELSE semaphores
          /\ UNCHANGED <<should_resize, current_frame>>
    /\ UNCHANGED <<fence_signaled, pending, swapchain, per_frame_data, renderpass,
                   pipeline>>

----------------------------------------------------------------------------
(* Lifetimes of the device objects                                         *)
(* (src/src/master_renderer.rs, src/src/vulkan/context.rs, swapchain.rs,   *)
(* texture.rs, buffer.rs, framebuffer.rs, pipeline.rs, renderpass.rs,      *)
(* sampler.rs)                                                             *)
(*                                                                         *)
(* resize(), the destructor of MasterRenderer and the destructor of        *)
(* VulkanContext are run one create or destroy call at a time. A value is  *)
(* dropped by its Drop::drop, then its fields in the order of their        *)
(* declaration; an assignment to a field drops the old value after the new *)
(* one was built. An Rc<VulkanContext> that is dropped releases one        *)
(* reference; the context is dropped with the last one.                    *)

\* a device object: its kind, the resize that created it (0: created by
\* MasterRenderer::new or VulkanContext::new) and its index among the
\* objects of an array
Object(kind, gen, index) == [kind |-> kind, gen |-> gen, index |-> index]

Single(kind) == Object(kind, 0, 0)

\* the kinds of objects that keep an Rc<VulkanContext>: Texture, Buffer,
\* Sampler
ContextHolders ==
    {"image_view", "color_attachment", "depth_attachment", "uniformbuffer",
     "vertex_buffer", "index_buffer", "texture", "sampler"}

(* The calls of a handler, in order *)

Create(o) == [op |-> "create", obj |-> o]

Destroy(o) == [op |-> "destroy", obj |-> o]

\* an Rc<VulkanContext> is dropped
Release == [op |-> "release", obj |-> Single("context")]

RECURSIVE Flatten(_)
Flatten(seqs) ==
    IF seqs = << >> THEN << >> ELSE Head(seqs) \o Flatten(Tail(seqs))

\* o is dropped: its Drop::drop destroys it, then its fields are dropped
DropOps(o) ==
    IF o.kind \in ContextHolders THEN << Destroy(o), Release >>
    ELSE << Destroy(o) >>

\* the live objects of a kind, in the order of their indices
Indexed(objects, kind) ==
    LET of_kind == { o \in objects : o.kind = kind }
    IN [i \in 1 .. Cardinality(of_kind) |->
            CHOOSE o \in of_kind : o.index = i - 1]

\* Swapchain::new: create_swapchain, then Texture::from_image per image
SwapchainNewOps(gen, n) ==
    << Create(Object("swapchain", gen, 0)) >>
        \o [i \in 1 .. n |-> Create(Object("image_view", gen, i - 1))]

\* Drop for Swapchain destroys the swapchain; the field images is dropped
\* after it, Texture by Texture
SwapchainDropOps(objects) ==
    DropOps(Indexed(objects, "swapchain")[1])
        \o Flatten([i \in 1 .. Len(Indexed(objects, "image_view")) |->
                       DropOps(Indexed(objects, "image_view")[i])])

\* PerFrameData::new for image index: Framebuffer::new, Buffer::new
PerFrameDataNewOps(gen, index) ==
    << Create(Object("framebuffer", gen, index)),
       Create(Object("uniformbuffer", gen, index)) >>

\* a PerFrameData is dropped: its fields uniformbuffer and framebuffer
PerFrameDataDropOps(objects, i) ==
    DropOps(Indexed(objects, "uniformbuffer")[i])
        \o DropOps(Indexed(objects, "framebuffer")[i])

\* per_frame_data.clear(), or the field per_frame_data is dropped
PerFrameDataClearOps(objects) ==
    Flatten([i \in 1 .. Len(Indexed(objects, "uniformbuffer")) |->
                PerFrameDataDropOps(objects, i)])

\* field = new value: the new object is created, then the old one dropped
ReplaceOps(objects, kind, gen) ==
    << Create(Object(kind, gen, 0)) >> \o DropOps(Indexed(objects, kind)[1])

\* resize() after wait_idle, when its first failing stage is fail_at
\* (0: none) and PerFrameData::new fails for image number built
ResizeOps(objects, gen, n, old_format, new_format, fail_at, built) ==
    (IF StageDone("swapchain", fail_at)
     THEN SwapchainNewOps(gen, n) \o SwapchainDropOps(objects) ELSE << >>)
    \o (IF StageDone("color_attachment", fail_at)
        THEN ReplaceOps(objects, "color_attachment", gen) ELSE << >>)
    \o (IF StageDone("depth_attachment", fail_at)
        THEN ReplaceOps(objects, "depth_attachment", gen) ELSE << >>)
    \o (IF StageDone("renderpass", fail_at)
           /\ ~RenderpassKept(old_format, new_format)
        THEN ReplaceOps(objects, "renderpass", gen) ELSE << >>)
    \o (IF StageDone("pipeline", fail_at)
           /\ ~PipelineKept(old_format, new_format)
        THEN ReplaceOps(objects, "pipeline", gen) ELSE << >>)
    \o (IF StageDone("descriptor_allocator", fail_at)
        THEN PerFrameDataClearOps(objects) ELSE << >>)
    \o (IF StageDone("per_frame_data", fail_at)
        THEN Flatten([i \in 1 .. n |-> PerFrameDataNewOps(gen, i - 1)])
        ELSE IF fail_at = StageIndex("per_frame_data")
        THEN Flatten([i \in 1 .. built |-> PerFrameDataNewOps(gen, i - 1)])
        ELSE << >>)

\* Drop for MasterRenderer, then its fields in the order of declaration
MasterRendererDropOps(objects) ==
    [i \in 1 .. FRAMES_IN_FLIGHT |->
        Destroy(Object("image_available_semaphore", 0, i - 1))]
    \o [i \in 1 .. FRAMES_IN_FLIGHT |->
           Destroy(Object("render_finished_semaphore", 0, i - 1))]
    \o [i \in 1 .. FRAMES_IN_FLIGHT |->
           Destroy(Object("in_flight_fence", 0, i - 1))]
    \o SwapchainDropOps(objects)
    \o DropOps(Single("pipeline_layout"))
    \o DropOps(Indexed(objects, "pipeline")[1])
    \o DropOps(Single("commandpool"))
    \o DropOps(Indexed(objects, "renderpass")[1])
    \o DropOps(Single("vertex_buffer"))
    \o DropOps(Single("index_buffer"))
    \o DropOps(Single("descriptor_pools"))
    \o PerFrameDataClearOps(objects)
    \o DropOps(Indexed(objects, "color_attachment")[1])
    \o DropOps(Indexed(objects, "depth_attachment")[1])
    \o DropOps(Single("texture"))
    \o DropOps(Single("sampler"))
    \o << Release >>

\* the steps of Drop for VulkanContext, in order
ContextTeardown ==
    << "allocator", "transfer_pool", "device", "debug_utils", "surface",
       "instance" >>

\* Drop for VulkanContext: debug_utils is destroyed if it is Some
ContextDropOps(objects) ==
    Flatten([i \in 1 .. Len(ContextTeardown) |->
                IF ContextTeardown[i] = "debug_utils"
                   /\ Single("debug_utils") \notin objects
                THEN << >>
                ELSE << Destroy(Single(ContextTeardown[i])) >>])

\* what VulkanContext::new creates; validation: ENABLE_VALIDATION_LAYERS
ContextObjects(validation) ==
    { Single(k) : k \in Steps(ContextTeardown) \ {"debug_utils"} }
        \cup (IF validation THEN { Single("debug_utils") } ELSE {})

\* what MasterRenderer::new creates for a swapchain of n images
RendererObjects(n) ==
    { Object(k, 0, i) :
          k \in {"image_available_semaphore", "render_finished_semaphore",
                 "in_flight_fence"},
          i \in FrameSlots }
    \cup { Single(k) :
             k \in {"swapchain", "pipeline_layout", "pipeline", "commandpool",
                    "renderpass", "vertex_buffer", "index_buffer",
                    "descriptor_pools", "color_attachment", "depth_attachment",
                    "texture", "sampler"} }
    \cup { Object(k, 0, i) :
             k \in {"image_view", "framebuffer", "uniformbuffer"},
             i \in 0 .. (n - 1) }

\* the Rc<VulkanContext> alive with these objects: one per holder, the
\* field context of MasterRenderer and the one the application keeps
StrongCount(objects) ==
    Cardinality({ o \in objects : o.kind \in ContextHolders }) + 2

\* Rc that drops its value with one reference left
LastReference_Early(count) == count <= 1

\* Rc::drop: the value is dropped when the strong count reaches zero
LastReference(count) == count = 0

LifetimeNew(format) ==
    [phase |-> "running", gen |-> 0, app_holds |-> TRUE,
     surface_format |-> format]

\* resize() is entered: Swapchain::new returns n images of new_format
LifetimeResize ==
    /\ lifetime.phase = "running"
    /\ script = << >>
    /\ lifetime.gen < MaxResizes
    /\ \E n \in 1 .. MaxImages, new_format \in SurfaceFormats,
          fail_at \in 0 .. Len(ResizeStages) :
       \E built \in IF fail_at = StageIndex("per_frame_data")
                    THEN 0 .. (n - 1) ELSE {0} :
         /\ script' = ResizeOps(alive, lifetime.gen + 1, n,
                                lifetime.surface_format, new_format,
                                fail_at, built)
         /\ lifetime' =
               [lifetime EXCEPT
                   !.gen = @ + 1,
                   !.phase = IF fail_at = 0 THEN "running" ELSE "failed",
                   !.surface_format = IF StageDone("swapchain", fail_at)
                                      THEN new_format ELSE @]
    /\ UNCHANGED <<alive, destroyed, context_refs>>
    /\ UNCHANGED not_lifetime_vars

\* the MasterRenderer is dropped
MasterRendererDrop ==
    /\ lifetime.phase \in {"running", "failed"}
    /\ script = << >>
    /\ script' = MasterRendererDropOps(alive)
    /\ lifetime' = [lifetime EXCEPT !.phase = "dropped"]
    /\ UNCHANGED <<alive, destroyed, context_refs>>
    /\ UNCHANGED not_lifetime_vars

\* the application drops the Rc<VulkanContext> it keeps
ApplicationRelease ==
    /\ lifetime.app_holds
    /\ script = << >>
    /\ script' = << Release >>
    /\ lifetime' = [lifetime EXCEPT !.app_holds = FALSE]
    /\ UNCHANGED <<alive, destroyed, context_refs>>
    /\ UNCHANGED not_lifetime_vars

\* the next call of the running handler creates an object
CreateCall ==
    /\ script # << >>
    /\ Head(script).op = "create"
    /\ alive' = alive \cup { Head(script).obj }
    /\ context_refs' = IF Head(script).obj.kind \in ContextHolders
                       THEN context_refs + 1 ELSE context_refs
    /\ script' = Tail(script)
    /\ UNCHANGED <<destroyed, lifetime>>
    /\ UNCHANGED not_lifetime_vars

\* the next call of the running handler destroys an object
DestroyCall ==
    /\ script # << >>
    /\ Head(script).op = "destroy"
    /\ alive' = alive \ { Head(script).obj }
    /\ destroyed' = Append(destroyed, Head(script).obj)
    /\ script' = Tail(script)
    /\ UNCHANGED <<context_refs, lifetime>>
    /\ UNCHANGED not_lifetime_vars

\* the running handler drops an Rc<VulkanContext>; the last one drops the
\* VulkanContext before the handler goes on
ReleaseCall ==
    /\ script # << >>
    /\ Head(script).op = "release"
    /\ context_refs' = context_refs - 1
    /\ script' = IF LastReference(context_refs - 1)
                 THEN ContextDropOps(alive) \o Tail(script)
                 ELSE Tail(script)
    /\ UNCHANGED <<alive, destroyed, lifetime>>
    /\ UNCHANGED not_lifetime_vars


----------------------------------------------------------------------------

Next ==
    \/ OnResize
    \/ DrawBegin
    \/ ResizeWaitIdle
    \/ ResizeRebuild
    \/ WaitFrameFence
    \/ AcquireImage
    \/ WaitImageFence
    \/ RecordSubmit
    \/ Present
    \/ GpuComplete

Spec == Init /\ [][Next]_vars

\* The CPU thread keeps running, the GPU completes what was submitted and
\* the presentation engine returns from acquire and present.  A wait with
\* timeout u64::MAX returns once what it waits for has happened; that it
\* fails instead is possible but nothing guarantees it.  draw() runs on one
\* thread, so at most one of its steps is enabled at a time.
\* a step of the CPU thread inside draw(); a wait returns without an error
DrawStep ==
    \/ ResizeWaitIdle /\ pc' = "rebuild"
    \/ ResizeRebuild
    \/ WaitFrameFence /\ pc' = "acquire"
    \/ AcquireImage
    \/ WaitImageFence /\ pc' = "submit"
    \/ RecordSubmit
    \/ Present

Fairness ==
    /\ WF_vars(DrawStep)
    /\ WF_vars(GpuComplete)

LiveSpec == Spec /\ Fairness

----------------------------------------------------------------------------
(* Specifications of the resource types: the frame loop does not run *)

\* MasterRenderer before its first draw(), with a swapchain of
\* FRAMES_IN_FLIGHT images
FrameLoopIdle ==
    /\ pc = "idle"
    /\ result = "none"
    /\ should_resize = FALSE
    /\ current_frame = 0
    /\ fence_signaled = [f \in FrameSlots |-> TRUE]
    /\ pending = {}
    /\ swapchain = [images |-> FRAMES_IN_FLIGHT, surface_format |-> PreferredFormat]
    /\ per_frame_data = NewPerFrameData(swapchain)
    /\ renderpass = "h0"
    /\ pipeline = "h0"
    /\ image_index = NoImage
    /\ log = LogNew(FALSE)
    /\ semaphores = SemaphoresNew

\* no Buffer exists yet
BufferInit ==
    /\ FrameLoopIdle
    /\ ResourcesIdle

BufferNext ==
    \/ BufferNewUninit
    \/ BufferNew
    \/ BufferFill

BufferSpec == BufferInit /\ [][BufferNext]_vars

\* no Buffer exists yet, and its life is followed from its creation
BufferLifeInit ==
    /\ FrameLoopIdle
    /\ ResourcesIdle

BufferLifeNext ==
    \/ BufferCreate
    \/ BufferWrite
    \/ BufferDrop

BufferLifeSpec == BufferLifeInit /\ [][BufferLifeNext]_vars

\* ResourceManager::new, then loads and lookups in any order
CacheInit ==
    /\ FrameLoopIdle
    /\ ResourcesIdle

CacheNext ==
    \/ LoadEffect
    \/ LoadTexture
    \/ LoadMaterial
    \/ CacheGet
    \/ CacheRaw

CacheSpec == CacheInit /\ [][CacheNext]_vars

\* meshes are loaded from glTF primitives of any shape
GltfInit ==
    /\ FrameLoopIdle
    /\ ResourcesIdle

GltfNext ==
    \/ PadVec
    \/ MeshFromGltf

GltfSpec == GltfInit /\ [][GltfNext]_vars

\* DescriptorAllocator::new(device, sizes, set_count): no pool yet
AllocInit ==
    /\ FrameLoopIdle
    /\ NotAllocatorIdle
    /\ allocator \in { DescriptorAllocatorNew(n) : n \in 1 .. MaxSetCount }
    /\ device_pools = << >>
    /\ alloc_log = AllocLogNew
    /\ cycle = NoCycle

AllocNext ==
    \/ AllocatorAllocate
    \/ AllocatorReset

AllocSpec == AllocInit /\ [][AllocNext]_vars

\* the life of a DescriptorAllocator: allocate(), reset() and clear() in
\* any order, until it is dropped
PoolNext ==
    \/ ~pool_life.dropped /\ AllocatorAllocate
    \/ ~pool_life.dropped /\ AllocatorReset
    \/ AllocatorClear

PoolSpec == AllocInit /\ [][PoolNext]_vars

\* a new DescriptorAllocator and the requests every resize cycle makes
CycleInit ==
    /\ FrameLoopIdle
    /\ NotAllocatorIdle
    /\ allocator \in { DescriptorAllocatorNew(n) : n \in 1 .. MaxSetCount }
    /\ device_pools = << >>
    /\ alloc_log = AllocLogNew
    /\ cycle \in { [NoCycle EXCEPT !.requests = rs] : rs \in RequestSeqs }

CycleNext ==
    \/ CycleReset
    \/ CycleAllocate

CycleSpec == CycleInit /\ [][CycleNext]_vars

\* no MeshRenderer exists yet
MeshInit ==
    /\ FrameLoopIdle
    /\ ResourcesIdle

MeshNext ==
    \/ MeshRendererNew
    \/ MeshRendererDraw

MeshSpec == MeshInit /\ [][MeshNext]_vars

\* before device::create: the instance enumerates any list of devices
DeviceInit ==
    /\ FrameLoopIdle
    /\ NotDeviceIdle
    \* up to MaxDevices devices, in any order of their handles
    /\ \E n \in 0 .. MaxDevices :
         \E ds \in [1 .. n -> DevicesOf(0)], hs \in HandleOrders(n) :
             physical_devices = DeviceList(ds, hs)
    /\ device_log = DeviceLogNew

DeviceNext ==
    \/ DeviceCreate

DeviceSpec == DeviceInit /\ [][DeviceNext]_vars

\* before the first Swapchain::new, on any surface
SurfaceInit ==
    /\ FrameLoopIdle
    /\ NotSurfaceIdle
    /\ capabilities \in AllCapabilities
    /\ swapchain_log = SwapchainLogNew

SurfaceNext ==
    \/ SwapchainCreate

SurfaceSpec == SurfaceInit /\ [][SurfaceNext]_vars

\* after VulkanContext::new and MasterRenderer::new
LifetimeInit ==
    /\ FrameLoopIdle
    /\ NotLifetimeIdle
    /\ \E validation \in BOOLEAN, n \in 1 .. MaxImages :
          alive = ContextObjects(validation) \cup RendererObjects(n)
    /\ destroyed = << >>
    /\ script = << >>
    /\ context_refs = StrongCount(alive)
    /\ lifetime \in { LifetimeNew(format) : format \in SurfaceFormats }

LifetimeNext ==
    \/ LifetimeResize
    \/ MasterRendererDrop
    \/ ApplicationRelease
    \/ CreateCall
    \/ DestroyCall
    \/ ReleaseCall

LifetimeSpec == LifetimeInit /\ [][LifetimeNext]_vars

TypeOK ==
    /\ pc \in {"idle", "wait_idle", "rebuild", "wait_frame", "acquire",
               "wait_image", "submit", "present", "failed"}
    /\ result \in {"none", "Ok", "Err"}
    /\ should_resize \in BOOLEAN
    /\ current_frame \in FrameSlots
    /\ fence_signaled \in [FrameSlots -> BOOLEAN]
    /\ \A s \in pending : s.fence \in FrameSlots /\ s.image \in 0 .. (MaxImages - 1)
    /\ swapchain.images \in 1 .. MaxImages
    /\ swapchain.surface_format \in SurfaceFormats
    /\ renderpass \in Handles
    /\ pipeline \in Handles
    /\ image_index \in {NoImage} \cup 0 .. (MaxImages - 1)

----------------------------------------------------------------------------
(* Properties of the frame loop *)

DrawRunning == pc \notin {"idle", "failed"}

DrawReturned == pc \in {"idle", "failed"}

\* RecordSubmit is the step in which draw() writes the uniform buffer of
\* the acquired image and submits its command buffer
WritesOrSubmits == pc = "submit" /\ (log'.wrote_uniform \/ log'.submitted)

\* C1: when draw() writes the uniform buffer of swapchain image k or submits
\* image k's command buffer, no earlier submission that targeted image k is
\* still pending on the GPU.
C1_ImageNotInUse ==
    [][WritesOrSubmits => \A s \in pending : s.image # image_index]_vars

C1_Witness ==
    /\ pc = "present"
    /\ log.submitted
    /\ log.blocked_image
    /\ swapchain.images > FRAMES_IN_FLIGHT

\* C2: draw() resets in_flight_fences[current_frame] and submits with it
\* only when the fence is signaled and no submission that signals it is
\* pending.
C2_SlotNotReused ==
    [][(pc = "submit" /\ pc' # "submit") =>
           /\ fence_signaled[current_frame]
           /\ \A s \in pending : s.fence # current_frame]_vars

C2_Witness ==
    /\ pc = "present"
    /\ log.submitted
    /\ log.blocked_frame

\* C3: the number of submissions handed to the GPU and not yet completed is
\* at most FRAMES_IN_FLIGHT, whatever the number of swapchain images.
C3_FramesInFlightBounded == Cardinality(pending) <= FRAMES_IN_FLIGHT

C3_Witness ==
    /\ Cardinality(pending) = FRAMES_IN_FLIGHT
    /\ swapchain.images > FRAMES_IN_FLIGHT

\* between two draw() calls every unsignaled fence has a pending submission
\* that will signal it
FencesCovered ==
    pc = "idle" =>
        \A f \in FrameSlots :
            ~fence_signaled[f] => \E s \in pending : s.fence = f

\* C4: if the GPU completes every submission and acquire returns, every
\* draw() call returns, and between two calls no fence is left unsignaled
\* without a submission that signals it.
C4_DrawReturns == []FencesCovered /\ (DrawRunning ~> DrawReturned)

C4_Witness ==
    /\ pc = "present"
    /\ log.blocked_frame
    /\ log.blocked_image
    /\ log.submitted
    /\ Cardinality(pending) = 1

\* C5: when next_image reports out-of-date, draw() returns Ok with
\* should_resize set and has reset no fence, changed no image_in_flight,
\* written no uniform buffer, submitted and presented nothing and left
\* current_frame unchanged.
C5_AcquireOutOfDateSkipsFrame ==
    [][(pc = "acquire" /\ log'.acquire = "out_of_date") =>
           /\ pc' = "idle"
           /\ result' = "Ok"
           /\ should_resize'
           /\ UNCHANGED <<fence_signaled, per_frame_data, pending, current_frame>>
           /\ ~log'.wrote_uniform
           /\ ~log'.submitted
           /\ log'.present = "none"]_vars

C5_Witness ==
    /\ pc = "idle"
    /\ result = "Ok"
    /\ log.acquire = "out_of_date"
    /\ should_resize
    /\ pending # {}

\* the positions of draw() after the place where resize() is called
AfterResizePoint ==
    pc \in {"wait_frame", "acquire", "wait_image", "submit", "present"}

\* C6: a draw() entered with should_resize set performs exactly one resize,
\* at its start and before any fence wait or acquire, and clears the flag; a
\* draw() entered with the flag clear performs none; the flag is set only by
\* on_resize() or an out-of-date result; after the resize the same draw()
\* goes on to its frame.
C6_ResizeOnceAtStart ==
    /\ [][(pc = "idle" /\ pc' # "idle") =>
              /\ ~should_resize'
              /\ pc' = IF should_resize THEN "wait_idle" ELSE "wait_frame"]_vars
    /\ [](AfterResizePoint =>
              log.resizes = IF log.resize_requested THEN 1 ELSE 0)
    /\ [][pc = "rebuild" =>
              /\ log.acquire = "none"
              /\ (log'.resizes = 1 => pc' = "wait_frame")]_vars
    /\ [][(~should_resize /\ should_resize') =>
              \/ pc = "idle" /\ pc' = "idle"
              \/ log'.acquire = "out_of_date"
              \/ log'.present = "out_of_date"]_vars

C6_Witness ==
    /\ pc = "present"
    /\ log.resizes = 1
    /\ log.acquire = "ok"
    /\ log.submitted
    /\ ~should_resize

\* C7: when present() returns suboptimal = true, draw() returns Ok with
\* should_resize set.
C7_SuboptimalFlagsResize ==
    [][(pc = "present" /\ log'.present = "suboptimal") =>
           result' = "Ok" /\ should_resize']_vars

\* C8: whenever resize() replaces or destroys the swapchain, the
\* attachments, the pipeline or the per-frame data, or resets the command
\* pool or the descriptor pools, no GPU submission is pending, and resize()
\* submits nothing.
C8_ResizeStopsTheWorld ==
    [][pc = "rebuild" => pending = {} /\ pending' = {}]_vars

C8_Witness ==
    /\ pc = "rebuild"
    /\ log.blocked_idle

\* a resize() that returned Ok
ResizeCompletes == pc = "rebuild" /\ pc' = "wait_frame"

\* C9: a completed resize leaves the renderpass object unchanged if and only
\* if the new swapchain has the surface format of the old one.
C9_RenderpassKeptIffSameFormat ==
    [][ResizeCompletes =>
           ((renderpass' = renderpass) <=>
            (swapchain'.surface_format = swapchain.surface_format))]_vars

C9_Witness ==
    /\ pc = "wait_frame"
    /\ log.resizes = 1
    /\ ~log.format_changed
    /\ "renderpass" \notin log.rebuilt

\* C10 as stated: a completed resize with an unchanged surface format leaves
\* the pipeline object unchanged.
C10_PipelineKeptOnSameFormat ==
    [][(ResizeCompletes
        /\ swapchain'.surface_format = swapchain.surface_format) =>
           pipeline' = pipeline]_vars

\* C10 amended: every completed resize replaces the pipeline, the swapchain,
\* the attachments and the per-frame data, whether or not the surface format
\* changed; with an unchanged surface format only the renderpass is kept.
C10_PipelineAlwaysRecreated ==
    [][ResizeCompletes =>
           /\ pipeline' # pipeline
           /\ {"swapchain", "color_attachment", "depth_attachment", "pipeline",
               "per_frame_data"} \subseteq log'.rebuilt
           /\ (swapchain'.surface_format = swapchain.surface_format =>
                   log'.rebuilt = {"swapchain", "color_attachment",
                                   "depth_attachment", "pipeline",
                                   "per_frame_data"})]_vars

C10_Witness ==
    /\ pc = "wait_frame"
    /\ log.resizes = 1
    /\ ~log.format_changed
    /\ "pipeline" \in log.rebuilt
    /\ per_frame_data = NewPerFrameData(swapchain)

\* C20: out-of-date is the only error-shaped result draw() recovers: an
\* error of any other kind from next_image or present, and any error from
\* the fence waits, the fence reset, the uniform-buffer write, the submit
\* or the resize, makes draw() return Err; draw() returns Ok only if no
\* such error occurred, and an out-of-date result makes it return Ok.
C20_OnlyOutOfDateRecovered ==
    /\ log.error # "none" <=> result = "Err"
    /\ result = "Err" => pc = "failed"
    /\ result = "Ok" => (log.acquire # "error" /\ log.present # "error")
    /\ (DrawReturned /\ "out_of_date" \in {log.acquire, log.present})
          => result = "Ok"

\* the uniform-buffer write failed after the acquire succeeded, and draw()
\* returned the error without submitting
C20_Witness ==
    /\ result = "Err"
    /\ log.error = "fill"
    /\ log.acquire = "ok"
    /\ ~log.submitted

----------------------------------------------------------------------------
(* Properties of Buffer *)

\* C11: a write never exceeds the buffer's capacity: a fill() that returns
\* Ok has written or copied no byte outside [0, capacity), and a request
\* that reaches past the capacity is rejected (with BufferOverflow, unless
\* a device call of the write failed first).
C11_WriteWithinCapacity ==
    buffer_log.call = "fill" =>
        /\ buffer_log.result = BufferOk => buffer_log.reach <= buffer.size
        /\ buffer_log.offset + buffer_log.size > buffer.size
              => buffer_log.result # BufferOk

\* C12: a write with size > capacity fails with BufferOverflow carrying
\* the requested size and the capacity, makes no call at all (no
\* write_func, no staging buffer, no mapping, no copy) and leaves the
\* buffer's fields and contents as they were.
C12_OverflowRejected ==
    [][ (buffer_log'.call = "fill" /\ buffer_log'.size > buffer.size)
          => /\ buffer_log'.result =
                   [kind |-> "BufferOverflow", size |-> buffer_log'.size,
                    max_size |-> buffer.size]
             /\ buffer_log'.steps = << >>
             /\ buffer_log'.reach = 0
             /\ buffer' = buffer ]_vars

\* an oversized write was rejected on a buffer that holds data, in each of
\* the states a persistent staging buffer can be in
C12_Witness ==
    /\ buffer_log.call = "fill"
    /\ buffer_log.size > buffer.size
    /\ buffer_log.result.kind = "BufferOverflow"
    /\ buffer.usage = "StagedPersistent"
    /\ buffer.staging_buffer.present
    /\ buffer.memory # FreshMemory(buffer.size)

\* C13: round trip: after a fill(offset, data) that returns Ok the bytes of
\* the buffer at [offset, offset + size) are the source data, and
\* Buffer::new(data) yields a buffer of capacity size_of(data) whose
\* contents are the data.
C13_RoundTrip ==
    (buffer_log.call \in {"fill", "new"} /\ buffer_log.result = BufferOk) =>
        /\ \A i \in 0 .. (buffer_log.size - 1) :
              /\ buffer_log.offset + i \in DOMAIN buffer.memory
              /\ buffer.memory[buffer_log.offset + i] =
                    SourceData(buffer_log.gen, buffer_log.size)[i]
        /\ buffer_log.call = "new" =>
              /\ buffer.size = buffer_log.size
              /\ buffer.memory = SourceData(buffer_log.gen, buffer_log.size)

----------------------------------------------------------------------------
(* Properties of DescriptorAllocator *)

\* the pool created last
NewestPool == Len(device_pools)

\* the last call was an allocate() that an existing pool served
ServedByExisting ==
    \E k \in 1 .. Len(alloc_log.probes) : alloc_log.probes[k].outcome = "ok"

\* the last call was an allocate() that no existing pool could serve: every
\* attempt returned out-of-pool-memory (or there was no pool to try)
NoneCouldServe ==
    \A k \in 1 .. Len(alloc_log.probes) :
        alloc_log.probes[k].outcome = "out_of_pool_memory"

\* C14: when allocate() is called with more layouts than set_count and no
\* existing pool serves the request, the pool it creates has
\* max(set_count, requested) as its maximum set count, and the allocation
\* from the new pool succeeds.
C14_NewPoolSizedToRequest ==
    (/\ alloc_log.call = "allocate"
     /\ alloc_log.requested > allocator.set_count
     /\ alloc_log.created = 1)
    => /\ device_pools[NewestPool].max_sets =
             Max(allocator.set_count, alloc_log.requested)
       /\ ~alloc_log.device_error => alloc_log.result = "Ok"

\* C15: an allocate() made when no existing pool can serve it creates
\* exactly one pool, total_pool_count() grows by exactly 1 and the returned
\* sets come from the new pool; an allocate() served by an existing pool
\* creates none.
C15_OneNewPool ==
    alloc_log.call = "allocate" =>
        LET grown == total_pool_count(allocator) - alloc_log.tracked
        IN /\ grown \in {0, 1}
           /\ alloc_log.created = grown
           /\ ServedByExisting =>
                 /\ grown = 0
                 /\ alloc_log.result = "Ok"
                 /\ alloc_log.served =
                       alloc_log.probes[Len(alloc_log.probes)].pool
           /\ (NoneCouldServe /\ ~alloc_log.device_error) => grown = 1
           /\ (NoneCouldServe /\ alloc_log.result = "Ok") =>
                 /\ grown = 1
                 /\ alloc_log.served = NewestPool
                 /\ \A k \in 1 .. Len(alloc_log.probes) :
                       alloc_log.probes[k].pool # NewestPool

\* every existing pool was tried and was full, and allocate() returned
\* sets of a pool it created
C15_Witness ==
    /\ alloc_log.call = "allocate"
    /\ alloc_log.result = "Ok"
    /\ Len(alloc_log.probes) >= 1
    /\ NoneCouldServe
    /\ alloc_log.served = NewestPool
    /\ total_pool_count(allocator) = alloc_log.tracked + 1

\* C16: after every allocate(), every pool from which set_count or more
\* sets have been allocated since its last reset is in the full list,
\* allocate() has attempted no allocation from a pool that had reached its
\* set count, and each pool's allocated counter is the number of sets
\* allocated from it.
C16_FullPoolsNotProbed ==
    alloc_log.call = "allocate" =>
        /\ \A i \in 1 .. Len(allocator.pools) :
              device_pools[allocator.pools[i].pool].allocated
                  < allocator.pools[i].set_count
        /\ \A k \in 1 .. Len(alloc_log.probes) :
              alloc_log.probes[k].sets
                  < device_pools[alloc_log.probes[k].pool].max_sets
        /\ \A i \in 1 .. Len(Chained(allocator)) :
              Chained(allocator)[i].allocated
                  = device_pools[Chained(allocator)[i].pool].allocated

\* C17: after reset() returns Ok the full list is empty, and every pool
\* created so far has no set allocated on the device, has a counter of 0
\* and is in the list allocate() serves requests from.
C17_ResetFreesEveryPool ==
    (alloc_log.call = "reset" /\ alloc_log.result = "Ok") =>
        /\ allocator.full_pools = << >>
        /\ \A id \in 1 .. Len(device_pools) :
              /\ device_pools[id].allocated = 0
              /\ \E i \in 1 .. Len(allocator.pools) :
                    /\ allocator.pools[i].pool = id
                    /\ allocator.pools[i].allocated = 0

\* C18: the pool count stabilizes: once the first resize cycle is
\* complete, repeating the cycle creates no further pool.
C18_PoolCountStabilizes ==
    cycle.count >= 1 => Len(device_pools) = cycle.first

\* C19: in allocate(), existing pools are tried in the order of the list,
\* each at most once; a pool that returns out-of-pool-memory is left as it
\* was (counter, list, device pool) and the loop goes on; any other error
\* ends the call with Err at once, with no further attempt, no new pool
\* and nothing changed.
C19_ProbeErrors ==
    [][ (alloc_log'.call = "allocate" /\ cycle = NoCycle) =>
          LET probes == alloc_log'.probes
          IN /\ Len(probes) <= Len(allocator.pools)
             /\ \A k \in 1 .. Len(probes) :
                   /\ probes[k].pool = allocator.pools[k].pool
                   /\ k < Len(probes) => probes[k].outcome = "out_of_pool_memory"
                   /\ probes[k].outcome = "out_of_pool_memory" =>
                         /\ \E j \in 1 .. Len(allocator'.pools) :
                               allocator'.pools[j] = allocator.pools[k]
                         /\ device_pools'[probes[k].pool]
                               = device_pools[probes[k].pool]
                         /\ k < Len(allocator.pools) => k < Len(probes)
                   /\ probes[k].outcome = "error" =>
                         /\ alloc_log'.result = "Err"
                         /\ allocator' = allocator
                         /\ device_pools' = device_pools ]_vars

\* a full pool was skipped and the next pool returned another error, which
\* ended the call
C19_Witness ==
    /\ alloc_log.call = "allocate"
    /\ Len(alloc_log.probes) = 2
    /\ alloc_log.probes[1].outcome = "out_of_pool_memory"
    /\ alloc_log.probes[2].outcome = "error"
    /\ alloc_log.result = "Err"
    /\ alloc_log.created = 0

----------------------------------------------------------------------------
(* Properties of MeshRenderer *)

\* C21: draw() with a scene of more than MAX_OBJECTS objects truncates
\* silently: it returns Ok (it does not panic), stores exactly MAX_OBJECTS
\* records, writes no byte past the object buffer and leaves the buffer's
\* size as it was.
C21_TruncatesSilently ==
    (mesh_log.call = "draw" /\ mesh_log.objects > MAX_OBJECTS) =>
        /\ mesh_log.result = MeshOk
        /\ mesh_log.stored = MAX_OBJECTS
        /\ mesh_log.reach <= mesh_log.size
        /\ mesh_renderer.frames[mesh_log.image_index + 1].object_buffer.size
              = mesh_log.size

----------------------------------------------------------------------------
(* Properties of the physical-device selection *)

\* the devices enumerated that meet every requirement
Suitable ==
    { i \in 1 .. Len(physical_devices) :
          LET d == physical_devices[i]
          IN /\ d.extensions /\ d.formats > 0 /\ d.present_modes > 0
             /\ d.graphics /\ d.present /\ ~d.query_error }

\* the device enumerated that device::create picked
Picked ==
    { i \in 1 .. Len(physical_devices) :
          physical_devices[i].handle = device_log.physical_device }

\* the score the contract gives a device: 1000 for a discrete GPU, plus
\* the maximum 2D image dimension, plus the maximum push-constant size
ContractScore(d) ==
    (IF d.device_type = "DISCRETE_GPU" THEN 1000 ELSE 0)
        + d.max_image_dimension2_d + d.max_push_constants_size

\* C22: the device picked is an eligible device whose score is the maximum
\* of the scores of the eligible devices.
C22_BestScorePicked ==
    (device_log.call = "create" /\ device_log.physical_device # NoDevice) =>
        \E i \in Picked :
            /\ i \in Suitable
            /\ \A j \in Suitable :
                  ContractScore(physical_devices[j])
                      <= ContractScore(physical_devices[i])

\* C23: a device that lacks a required extension, reports no surface format
\* or no present mode, or has no graphics or no present queue family is
\* never picked; a logical device is created only on a device picked; and
\* if the devices enumerated hold no eligible one, create() fails with
\* UnsuitableDevice and creates no logical device.
C23_IneligibleNeverSelected ==
    device_log.call = "create" =>
        /\ \A i \in Picked :
              LET d == physical_devices[i]
              IN /\ d.extensions
                 /\ d.formats > 0
                 /\ d.present_modes > 0
                 /\ d.graphics
                 /\ d.present
        /\ device_log.created => Picked # {}
        /\ Suitable = {} =>
              /\ ~device_log.created
              /\ device_log.physical_device = NoDevice
              /\ device_log.enumerated => device_log.result = "UnsuitableDevice"

\* a device was picked although a discrete GPU with larger limits and a
\* greater handle was enumerated, which has no present queue family
C23_Witness ==
    /\ device_log.call = "create"
    /\ device_log.created
    /\ \E i \in Picked, j \in 1 .. Len(physical_devices) :
          /\ ~physical_devices[j].present
          /\ physical_devices[j].handle > physical_devices[i].handle
          /\ ContractScore(physical_devices[j]) > ContractScore(physical_devices[i])

----------------------------------------------------------------------------
(* Properties of Swapchain::new *)

\* C24: a swapchain Swapchain::new returns never has more than MAX_FRAMES
\* images, whatever the capabilities of the surface and whatever number of
\* images the presentation engine returns.
C24_ImageCountBounded ==
    (swapchain_log.call = "new" /\ swapchain_log.result = "Ok") =>
        swapchain_log.images <= MAX_FRAMES

\* min_image_count + 1 clamped to MAX_FRAMES and, if it is not zero, to
\* max_image_count, over the integers
ClampedImageCount(min_image_count, max_image_count) ==
    LET capped == Min(min_image_count + 1, MAX_FRAMES)
    IN IF max_image_count # 0 THEN Min(capped, max_image_count) ELSE capped

\* C25: for all values of min_image_count and max_image_count, once the
\* capabilities are known Swapchain::new computes an image count to request;
\* it is min_image_count + 1 clamped to both limits: never above
\* MAX_FRAMES, never above a non-zero max_image_count, and
\* min_image_count + 1 itself when that is within both limits.
C25_RequestedCountClamped ==
    (swapchain_log.call = "new" /\ swapchain_log.queried) =>
        LET min_image_count == capabilities.min_image_count
            max_image_count == capabilities.max_image_count
            requested == swapchain_log.requested
        IN /\ swapchain_log.result # "Panicked"
           /\ requested <= MAX_FRAMES
           /\ max_image_count # 0 => requested <= max_image_count
           /\ (min_image_count + 1 <= MAX_FRAMES
                 /\ (max_image_count = 0 \/ min_image_count + 1 <= max_image_count))
                 => requested = min_image_count + 1
           /\ requested = ClampedImageCount(min_image_count, max_image_count)

----------------------------------------------------------------------------
(* Properties of the lifetimes of the device objects *)

\* C26: the image views of the images of a swapchain are destroyed before
\* the swapchain itself: while one of them is alive, so is the swapchain.
C26_ViewsBeforeSwapchain ==
    \A o \in alive :
        o.kind = "image_view" => Object("swapchain", o.gen, 0) \in alive

\* the objects VulkanContext owns
IsContextObject(o) ==
    o.kind \in {"allocator", "transfer_pool", "device", "debug_utils",
                "surface", "instance"}

\* C27: the teardown of the context runs in the order allocator, transfer
\* command pool, device, debug layer, surface, instance: each is destroyed
\* at most once, none before the ones ahead of it, none while a resource
\* that holds a reference to the context is alive or a reference is left,
\* and all of them once the last reference is gone and the handler is done.
C27_ContextTeardownOrder ==
    LET steps == << "allocator", "transfer_pool", "device", "debug_utils",
                    "surface", "instance" >>
        Step(o) == CHOOSE i \in 1 .. Len(steps) : steps[i] = o.kind
        torn == SelectSeq(destroyed, IsContextObject)
    IN /\ \A i \in 1 .. Len(torn) :
             /\ \A h \in 1 .. (i - 1) : Step(torn[h]) < Step(torn[i])
             /\ \A h \in 1 .. (Step(torn[i]) - 1) :
                   Single(steps[h]) \notin alive
       /\ torn # << >> =>
             /\ \A o \in alive : o.kind \notin ContextHolders
             /\ context_refs = 0
             /\ lifetime.phase = "dropped"
             /\ ~lifetime.app_holds
       /\ (lifetime.phase = "dropped" /\ context_refs = 0 /\ script = << >>) =>
             \A i \in 1 .. Len(steps) : Single(steps[i]) \notin alive

\* after a resize the renderer and the reference of the application were
\* dropped, and the context with its debug layer was torn down
C27_Witness ==
    /\ lifetime.phase = "dropped"
    /\ lifetime.gen = 1
    /\ script = << >>
    /\ context_refs = 0
    /\ Len(SelectSeq(destroyed, IsContextObject)) = 6

\* C29: during resize a child is destroyed before what it depends on:
\* while a framebuffer is alive, so are the image view of the swapchain
\* image and the color and depth attachments it was created from, and
\* while per-frame data is alive, so is the swapchain it was created for.
C29_ChildrenBeforeParents ==
    lifetime.phase \in {"running", "failed"} =>
        \A o \in alive :
            /\ o.kind = "framebuffer" =>
                  /\ Object("image_view", o.gen, o.index) \in alive
                  /\ Object("color_attachment", o.gen, 0) \in alive
                  /\ Object("depth_attachment", o.gen, 0) \in alive
            /\ o.kind \in {"framebuffer", "uniformbuffer"} =>
                  Object("swapchain", o.gen, 0) \in alive

\* C28: current_frame stays in [0, FRAMES_IN_FLIGHT); a draw() that returns
\* Ok has advanced it by one modulo FRAMES_IN_FLIGHT if it submitted a
\* frame, also when present then reported out-of-date, and has left it as
\* it was if it skipped the frame; nothing else changes it.
C28_CurrentFrameAdvances ==
    [][ /\ current_frame' \in FrameSlots
        /\ IF pc # "idle" /\ pc' = "idle" /\ log'.submitted
           THEN current_frame' = (current_frame + 1) % FRAMES_IN_FLIGHT
           ELSE pc' # "failed" => current_frame' = current_frame ]_vars

\* C30: while the loop runs per_frame_data has one entry per image of the
\* current swapchain, so the image index next_image returned is an index
\* into it; right after MasterRenderer::new and right after a resize()
\* that returned Ok every entry has image_in_flight = null.
C30_OneEntryPerImage ==
    pc # "failed" =>
        /\ DOMAIN per_frame_data = ImageRange(swapchain)
        /\ pc \in {"wait_image", "submit", "present"} =>
              image_index \in DOMAIN per_frame_data
        /\ (\/ pc = "idle" /\ result = "none"
            \/ pc = "wait_frame" /\ log.resizes > 0) =>
              \A i \in DOMAIN per_frame_data :
                  per_frame_data[i].image_in_flight = NullFence

\* a draw() resized after a frame had been submitted, and next_image then
\* returned the last image of the new swapchain
C30_Witness ==
    /\ pc = "wait_image"
    /\ log.resizes > 0
    /\ image_index = swapchain.images - 1
    /\ image_index > 0
    /\ per_frame_data[image_index].image_in_flight = NullFence
    /\ current_frame = 1

\* C31: a Staged write calls create_staging, write_func, the submit of the
\* copy, the wait for the copy and destroy_buffer in this order; the staging
\* buffer is not destroyed while its copy is pending, none is left when
\* write() has returned, and the persistent staging slot stays empty.
C31_StagedWriteOrder ==
    (buffer_life.usage = "Staged" /\ buffer_log.call = "fill") =>
        LET order == << "create_staging", "write_func", "submit",
                        "queue_wait_idle", "destroy_buffer" >>
            names == CallNames(buffer_life.calls)
        IN /\ names = SubSeq(order, 1, Len(names))
           /\ ~buffer_life.early
           /\ ~buffer.staging_buffer.present
           /\ buffer_life.temporary = 0

\* the state of the persistent staging buffer over the life of the Buffer
PersistentStagingOnce ==
    /\ buffer_life.created <= 1
    /\ buffer_life.usage # "StagedPersistent" =>
          buffer_life.created = 0 /\ ~buffer.staging_buffer.present
    /\ buffer.staging_buffer.present =>
          /\ buffer_life.created = 1
          /\ DOMAIN buffer.staging_buffer.memory = DOMAIN buffer.memory
    /\ (buffer_life.created = 1 /\ ~buffer_life.dropped) =>
          buffer.staging_buffer.present
    /\ buffer_life.destroyed =
          IF buffer_life.dropped THEN buffer_life.created ELSE 0
    /\ (buffer_life.usage = "StagedPersistent" /\ buffer_log.call = "fill"
          /\ buffer_log.result = BufferOk) => buffer_life.created = 1

\* C32: the persistent staging buffer of a StagedPersistent buffer is
\* created at most once, by a write that passed the size check, with the
\* capacity of the buffer; it is kept by every later write and destroyed
\* once, when the buffer is dropped. Buffers of the other usages never have
\* one.
C32_PersistentStagingOnce ==
    /\ []PersistentStagingOnce
    /\ [][ buffer_life'.created > buffer_life.created =>
             /\ buffer_log'.call = "fill"
             /\ ~Overflows(buffer_log'.size, buffer.size) ]_vars

\* a StagedPersistent buffer was written more than once, one of the writes
\* rejected for its size, and then dropped
C32_Witness ==
    /\ buffer_life.usage = "StagedPersistent"
    /\ buffer_life.dropped
    /\ buffer_life.writes = MaxWrites
    /\ buffer_life.created = 1
    /\ buffer_life.destroyed = 1

\* C33: on the staging allocation of a StagedPersistent buffer the unmap
\* calls never outnumber the map calls, the unmap of the drop and writes
\* with a failing copy included, and the allocation is not mapped when it
\* is destroyed.
C33_MapUnmapBalanced ==
    /\ buffer_life.map_count >= 0
    /\ ~buffer_life.mapped_destroyed

\* C34: a write(size, offset, write_func) that returns Ok changes no byte
\* of the buffer outside [offset, offset + size), whatever the usage.
C34_WriteFrame ==
    [][ (buffer # NoBuffer /\ buffer_log'.call = "fill"
           /\ buffer_log'.result = BufferOk) =>
          \A a \in DOMAIN buffer.memory :
              a \notin Range(buffer_log'.offset, buffer_log'.size) =>
                  buffer'.memory[a] = buffer.memory[a] ]_vars

\* every pool the device created is held by exactly one of pools and
\* full_pools, once, or was destroyed, once
PoolsAccounted ==
    \A id \in 1 .. Len(device_pools) :
        Cardinality({ i \in 1 .. Len(Chained(allocator)) :
                        Chained(allocator)[i].pool = id })
        + Cardinality({ i \in 1 .. Len(pool_life.destroyed) :
                          pool_life.destroyed[i] = id }) = 1

\* C35: no descriptor pool is leaked: over allocate(), reset() and clear()
\* every pool created is tracked in one of the two lists until it is
\* destroyed; reset() destroys no pool and leaves total_pool_count() as it
\* was; clear() and drop leave every pool ever created destroyed once.
C35_NoPoolLeaked ==
    /\ []PoolsAccounted
    /\ [][ alloc_log'.call = "reset" =>
             /\ total_pool_count(allocator') = total_pool_count(allocator)
             /\ pool_life' = pool_life ]_vars

\* no signal is queued on any semaphore without its wait
SemaphoresQuiet ==
    \A f \in FrameSlots :
        /\ semaphores.image_available[f] = 0
        /\ semaphores.render_finished[f] = 0

\* the submission that waits on image_available[f] has not completed yet
ConsumerPending(f) == \E s \in pending : wait_semaphores(s.fence) = f

\* C36: the semaphores of a frame slot are used in strict signal/wait
\* alternation over the draw() calls of the loop: no semaphore ever has
\* two signals queued or a wait without a signal; next_image is given
\* image_available[f] only when no signal on it is unconsumed and the
\* submit that waited on it has completed; the submit of that draw() waits
\* on it once and signals render_finished[f] once; present waits on
\* render_finished[f] once; when draw() returns Ok every signal has its
\* wait; and the steps in which the CPU waits touch no semaphore.
C36_SemaphoreAlternation ==
    /\ [](\A f \in FrameSlots :
             /\ semaphores.image_available[f] \in {0, 1}
             /\ semaphores.render_finished[f] \in {0, 1})
    /\ [](pc = "idle" => SemaphoresQuiet)
    /\ [][ (pc = "acquire" /\ pc' = "wait_image") =>
             /\ SemaphoresQuiet
             /\ ~ConsumerPending(current_frame)
             /\ semaphores'.image_available[current_frame] = 1 ]_vars
    /\ [][ (pc = "submit" /\ pc' = "present") =>
             /\ semaphores.image_available[current_frame] = 1
             /\ semaphores'.image_available[current_frame] = 0
             /\ semaphores.render_finished[current_frame] = 0
             /\ semaphores'.render_finished[current_frame] = 1 ]_vars
    /\ [][ (pc = "present" /\ pc' = "idle") =>
             /\ semaphores.render_finished[current_frame] = 1
             /\ SemaphoresQuiet' ]_vars
    /\ [][ (pc \in {"wait_idle", "wait_frame", "wait_image"}) =>
             (UNCHANGED semaphores) ]_vars

\* draw() has acquired an image with the semaphore of slot 0 for the
\* second time: both slots were submitted before, and the frame of slot 1
\* is still on the GPU
C36_Witness ==
    /\ pc = "wait_image"
    /\ current_frame = 0
    /\ semaphores.image_available[0] = 1
    /\ \E i \in DOMAIN per_frame_data : per_frame_data[i].image_in_flight = 0
    /\ \E s \in pending : s.fence = 1

\* the handles the cache of one kind gave out
Issued(c) == { c.name_cache[n] : n \in DOMAIN c.name_cache }

\* C37: ResourceCache::insert is idempotent per name.  For a cached name
\* it returns the handle the name has, without calling the closure and
\* without changing the cache.  For a new name whose closure succeeds it
\* calls the closure once; afterwards get(name) returns the handle insert
\* returned, raw(handle) returns the resource the closure made, and every
\* name cached before keeps its handle, which differs from the new one and
\* still gives the same resource.
C37_InsertIdempotent ==
    [][ (cache_log'.call \in {"load_effect", "load_texture", "load_material"}
           /\ cache_log'.result.kind = "Ok") =>
          LET kind == cache_log'.kind
              name == cache_log'.name
              before == caches[kind]
              after == caches'[kind]
              handle == cache_log'.result.handle
          IN /\ \A k \in ResourceKinds \ {kind} : caches'[k] = caches[k]
             /\ IF name \in DOMAIN before.name_cache
                THEN /\ cache_log'.invoked = 0
                     /\ handle = before.name_cache[name]
                     /\ after = before
                ELSE /\ cache_log'.invoked = 1
                     /\ Get(after, name) = CacheOk(handle, NoResource)
                     /\ Raw(after, handle) =
                            CacheOk(handle, Resource(kind, name))
                     /\ \A n \in DOMAIN before.name_cache :
                           /\ after.name_cache[n] = before.name_cache[n]
                           /\ before.name_cache[n] # handle
                           /\ Raw(after, before.name_cache[n]) =
                                  Raw(before, before.name_cache[n])
                           /\ Raw(after, before.name_cache[n]).kind = "Ok" ]_vars

\* a material was inserted under a second name, and then loaded again
\* under a name that was cached
C37_Witness ==
    /\ cache_log.call = "load_material"
    /\ cache_log.result.kind = "Ok"
    /\ cache_log.invoked = 0
    /\ DOMAIN caches["materials"].name_cache = ResourceNames
    /\ cache_log.result.handle = Handle(1, 0)

\* C38: errors leave the caches unchanged.  An insert whose closure
\* returns Err returns that Err, and the name is still not found
\* afterwards; load_material that does not find its effect or texture
\* returns NotFound; get of a name that is not cached returns NotFound; raw
\* of a handle the cache did not give out returns InvalidHandle.  None of
\* them changes a cache.
C38_ErrorsChangeNothing ==
    [][ /\ cache_log'.result.kind # "Ok" => caches' = caches
        /\ (cache_log'.call \in {"load_effect", "load_texture", "load_material"}
              /\ cache_log'.result.kind = "Err") =>
             /\ cache_log'.invoked = 1
             /\ cache_log'.name \notin DOMAIN caches[cache_log'.kind].name_cache
             /\ Get(caches'[cache_log'.kind], cache_log'.name) = NotFound
             /\ Len(caches'[cache_log'.kind].resources.items) =
                   Len(caches[cache_log'.kind].resources.items)
        /\ (cache_log'.call = "load_material"
              /\ cache_log'.result.kind = "NotFound") =>
             cache_log'.invoked = 0
        /\ (cache_log'.call = "get"
              /\ cache_log'.name \notin DOMAIN caches[cache_log'.kind].name_cache) =>
             cache_log'.result = NotFound
        /\ (cache_log'.call = "raw"
              /\ cache_log'.handle \notin Issued(caches[cache_log'.kind])) =>
             cache_log'.result = InvalidHandle
        /\ (cache_log'.call = "raw"
              /\ cache_log'.handle \in Issued(caches[cache_log'.kind])) =>
             cache_log'.result.kind = "Ok" ]_vars

\* raw was given a handle whose slot holds a resource but whose generation
\* is not the slot's, in a cache in which an insert had failed before
C38_Witness ==
    /\ cache_log.call = "raw"
    /\ cache_log.kind = "textures"
    /\ cache_log.result = InvalidHandle
    /\ cache_log.handle = Handle(0, 1)
    /\ DOMAIN caches["textures"].name_cache = {"a"}

\* C39: pad_vec(vec, val, len) returns for all inputs and leaves vec with
\* max(old length, len) elements: the old elements unchanged, each added
\* element equal to val, and a vector longer than len as it was; after the
\* padding in Mesh::from_gltf the normals cover every position index.
C39_PadVecCovers ==
    [][ gltf_log'.call \in {"pad_vec", "from_gltf"} =>
          LET old == gltf_log'.vec
              new == gltf_log'.padded
          IN /\ gltf_log'.panic = "none"
             /\ Len(new) = Max(Len(old), gltf_log'.len)
             /\ \A i \in 1 .. Len(old) : new[i] = old[i]
             /\ \A i \in (Len(old) + 1) .. Len(new) : new[i] = gltf_log'.val
             /\ Len(old) > gltf_log'.len => new = old
             /\ gltf_log'.call = "from_gltf" =>
                   /\ Len(new) >= gltf_log'.len
                   /\ Len(gltf_log'.texcoords) >= gltf_log'.len ]_vars

====
